---- MODULE Spec2Model ----
(***************************************************************************)
(* Model of the geoai-frontend map viewer: the layer catalog derivation    *)
(* (the useMemo of App that turns the flat layer index into DEM_LIST,      *)
(* DEM_LEVELS and DEM_LEVEL_TO_HAND) with the helper parseLevel; the tile  *)
(* URL builders; and the App component itself, its selection state, its    *)
(* effects, and the tile-layer list it hands to the renderer.              *)
(*                                                                         *)
(* A JavaScript string is modelled as a sequence of one-character strings, *)
(* so that concatenation, replace, trim, Number() and the code-unit order  *)
(* used by Array.prototype.sort are computed character by character.       *)
(* null / undefined is the one-element sequence Null, whose element is not *)
(* a character of the alphabet.                                            *)
(***************************************************************************)
EXTENDS Integers, Sequences, FiniteSets, TLC

VARIABLES index, catalog, pc, file, req, out, env, ui, view, panel

vars == <<index, catalog, pc, file, req, out, env, ui, view, panel>>

(* ------------------------------ bounds -------------------------------- *)

\* longest layer index that is enumerated
MaxRecs == 3

(* ------------------------- JavaScript strings -------------------------- *)

Null == <<"null">>

Empty == <<>>

\* UTF-16 code units of the characters that occur in the modelled inputs;
\* "uD800" is the code unit U+D800, a high surrogate
CharCode ==
  [c \in {" ", "!", "#", "%", "&", "'", "(", ")", "*", ",", "-", ".", "/",
          "0", "1", "2", "3", "4", "5", "6", "7", "8", "9", ":", "=", "?",
          "A", "B", "C", "D", "E", "F", "M", "[", "]", "_", "a", "b", "c",
          "d", "e", "f", "g", "h", "i", "l", "m", "n", "o", "p", "r", "s",
          "t", "u", "v", "x", "y", "z", "{", "|", "}", "~", "uD800"} |->
     CASE c = " " -> 32 [] c = "!" -> 33 [] c = "#" -> 35 [] c = "%" -> 37
       [] c = "&" -> 38 [] c = "'" -> 39 [] c = "(" -> 40 [] c = ")" -> 41
       [] c = "*" -> 42 [] c = "," -> 44 [] c = "-" -> 45 [] c = "." -> 46
       [] c = "/" -> 47 [] c = "0" -> 48 [] c = "1" -> 49 [] c = "2" -> 50
       [] c = "3" -> 51 [] c = "4" -> 52 [] c = "5" -> 53 [] c = "6" -> 54
       [] c = "7" -> 55 [] c = "8" -> 56 [] c = "9" -> 57 [] c = ":" -> 58
       [] c = "=" -> 61 [] c = "?" -> 63 [] c = "A" -> 65 [] c = "B" -> 66
       [] c = "C" -> 67 [] c = "D" -> 68 [] c = "E" -> 69 [] c = "F" -> 70
       [] c = "M" -> 77 [] c = "[" -> 91 [] c = "]" -> 93 [] c = "_" -> 95
       [] c = "a" -> 97 [] c = "b" -> 98 [] c = "c" -> 99 [] c = "d" -> 100
       [] c = "e" -> 101 [] c = "f" -> 102 [] c = "g" -> 103
       [] c = "h" -> 104 [] c = "i" -> 105 [] c = "l" -> 108
       [] c = "m" -> 109 [] c = "n" -> 110 [] c = "o" -> 111
       [] c = "p" -> 112 [] c = "r" -> 114 [] c = "s" -> 115
       [] c = "t" -> 116 [] c = "u" -> 117 [] c = "v" -> 118
       [] c = "x" -> 120 [] c = "y" -> 121 [] c = "z" -> 122
       [] c = "{" -> 123 [] c = "|" -> 124 [] c = "}" -> 125
       [] c = "~" -> 126 [] c = "uD800" -> 55296]

Digits == {"0", "1", "2", "3", "4", "5", "6", "7", "8", "9"}

DigitVal(c) == CharCode[c] - 48

\* JavaScript truthiness of a string-or-null field: neither null nor ""
Truthy(s) == s # Null /\ s # Empty

\* a ?? b
Coalesce(s, dflt) == IF s = Null THEN dflt ELSE s

\* a || b
Or(s, dflt) == IF Truthy(s) THEN s ELSE dflt

\* String(v) of a string-or-null field
String(v) == IF v = Null THEN <<"n", "u", "l", "l">> ELSE v

Range(s) == {s[i] : i \in 1..Len(s)}

Includes(s, x) == \E i \in 1..Len(s) : s[i] = x

\* String.prototype.toLowerCase, one character
LowerChar(c) ==
  IF CharCode[c] \in 65..90
  THEN CHOOSE d \in DOMAIN CharCode : CharCode[d] = CharCode[c] + 32
  ELSE c

ToLowerCase(s) == [i \in 1..Len(s) |-> LowerChar(s[i])]

\* String.prototype.replace(pat, "") with a one-character string pattern:
\* only the FIRST occurrence is removed
RemoveFirst(s, ch) ==
  IF \E i \in 1..Len(s) : s[i] = ch
  THEN LET k == CHOOSE i \in 1..Len(s) :
                  s[i] = ch /\ \A j \in 1..(i - 1) : s[j] # ch
       IN  SubSeq(s, 1, k - 1) \o SubSeq(s, k + 1, Len(s))
  ELSE s

\* String.prototype.trim
Trim(s) ==
  IF \A i \in 1..Len(s) : s[i] = " " THEN Empty
  ELSE LET lo == CHOOSE i \in 1..Len(s) :
                   s[i] # " " /\ \A j \in 1..(i - 1) : s[j] = " "
           hi == CHOOSE i \in 1..Len(s) :
                   s[i] # " " /\ \A j \in (i + 1)..Len(s) : s[j] = " "
       IN  SubSeq(s, lo, hi)

(* ------------------------------ numbers -------------------------------- *)

\* Number() yields NaN for a string that is not a numeric literal.  No sign
\* character is in the alphabet, so every parsed number is >= 0 and -1 is free
\* to stand for NaN.
NaN == -1

\* numbers are kept as integers in units of 10^-FracDigits
FracDigits == 2

RECURSIVE Pow10(_)
Pow10(n) == IF n = 0 THEN 1 ELSE 10 * Pow10(n - 1)

RECURSIVE DigitsValue(_)
DigitsValue(s) ==
  IF s = Empty THEN 0
  ELSE 10 * DigitsValue(SubSeq(s, 1, Len(s) - 1)) + DigitVal(s[Len(s)])

\* Number(str) on a trimmed level string as enumerated: "" is 0, a decimal
\* literal (digits, optionally one "." with digits on at least one side) is
\* its value, anything else is NaN
ToNumber(s) ==
  IF s = Empty THEN 0
  ELSE IF \E i \in 1..Len(s) : s[i] \notin Digits \cup {"."} THEN NaN
  ELSE LET dots == {i \in 1..Len(s) : s[i] = "."}
       IN  IF Cardinality(dots) > 1 THEN NaN
           ELSE IF dots = {} THEN DigitsValue(s) * Pow10(FracDigits)
           ELSE LET k    == CHOOSE i \in dots : TRUE
                    ip   == SubSeq(s, 1, k - 1)
                    fp   == SubSeq(s, k + 1, Len(s))
                    fpad == IF Len(fp) >= FracDigits
                            THEN SubSeq(fp, 1, FracDigits)
                            ELSE fp \o [i \in 1..(FracDigits - Len(fp)) |-> "0"]
                IN  IF Len(s) = 1 THEN NaN
                    ELSE DigitsValue(ip) * Pow10(FracDigits) + DigitsValue(fpad)

\* parseLevel = Number(String(s).toLowerCase().replace("m", "").trim())
parseLevel(s) == ToNumber(Trim(RemoveFirst(ToLowerCase(s), "m")))

(* ------------------------- sorting (line 445, 449) --------------------- *)

\* default comparison of Array.prototype.sort(): strings by UTF-16 code unit
StrLess(a, b) ==
  \E k \in 1..(Len(b)) :
     /\ k <= Len(a) + 1
     /\ \A j \in 1..(k - 1) : a[j] = b[j]
     /\ k = Len(a) + 1 \/ CharCode[a[k]] < CharCode[b[k]]

RECURSIVE InsertSorted(_, _)
InsertSorted(sorted, x) ==
  IF sorted = <<>> THEN <<x>>
  ELSE IF StrLess(x, sorted[Len(sorted)])
       THEN Append(InsertSorted(SubSeq(sorted, 1, Len(sorted) - 1), x),
                   sorted[Len(sorted)])
       ELSE Append(sorted, x)

\* SortStrings with the sort left out: insertion order
SortStrings_unsorted(s) == s

\* Array.from(demSet).sort(): the default order is total on distinct strings,
\* so every sorting algorithm yields the same sequence
RECURSIVE SortStrings(_)
SortStrings(s) ==
  IF s = <<>> THEN <<>>
  ELSE InsertSorted(SortStrings(SubSeq(s, 1, Len(s) - 1)), s[Len(s)])

\* LevelCmp with the comparator left out: levels compared as strings
LevelCmp_lexicographic(a, b) ==
  IF StrLess(a, b) THEN -1 ELSE IF a = b THEN 0 ELSE 1

\* the comparator (a, b) => parseLevel(a) - parseLevel(b) as the sort sees it:
\* a NaN result is replaced by +0 (SortCompare), so only the sign matters
LevelCmp(a, b) ==
  LET x == parseLevel(a)
      y == parseLevel(b)
  IN  IF x = NaN \/ y = NaN THEN 0 ELSE x - y

\* With a NaN operand LevelCmp is not a consistent comparator and the order
\* produced by sort is implementation-defined.  Two implementations are
\* modelled: the binary insertion sort that V8 applies to short arrays, and a
\* top-down stable merge sort.
SortImpls == {"v8", "merge"}

RECURSIVE CountRun(_, _, _)
CountRun(a, desc, r) ==
  IF r = Len(a) THEN r
  ELSE LET o == LevelCmp(a[r + 1], a[r])
       IN  IF (desc /\ o >= 0) \/ (~desc /\ o < 0) THEN r
           ELSE CountRun(a, desc, r + 1)

Reverse(s) == [i \in 1..Len(s) |-> s[Len(s) + 1 - i]]

\* position (0-based) at which pivot is inserted into a[left+1 .. right]
RECURSIVE BinarySearch(_, _, _, _)
BinarySearch(a, pivot, left, right) ==
  IF left >= right THEN left
  ELSE LET mid == left + ((right - left) \div 2)
       IN  IF LevelCmp(pivot, a[mid + 1]) < 0
           THEN BinarySearch(a, pivot, left, mid)
           ELSE BinarySearch(a, pivot, mid + 1, right)

RECURSIVE BinaryInsertionSort(_, _)
BinaryInsertionSort(a, start) ==
  IF start > Len(a) THEN a
  ELSE LET pivot == a[start]
           left  == BinarySearch(a, pivot, 0, start - 1)
           b     == SubSeq(a, 1, left) \o <<pivot>> \o
                    SubSeq(a, left + 1, start - 1) \o
                    SubSeq(a, start + 1, Len(a))
       IN  BinaryInsertionSort(b, start + 1)

V8Sort(a) ==
  IF Len(a) < 2 THEN a
  ELSE LET desc == LevelCmp(a[2], a[1]) < 0
           run  == CountRun(a, desc, 2)
           b    == IF desc
                   THEN Reverse(SubSeq(a, 1, run)) \o SubSeq(a, run + 1, Len(a))
                   ELSE a
       IN  BinaryInsertionSort(b, run + 1)

RECURSIVE Merge(_, _)
Merge(l, r) ==
  IF l = <<>> THEN r
  ELSE IF r = <<>> THEN l
  ELSE IF LevelCmp(l[1], r[1]) <= 0
       THEN <<l[1]>> \o Merge(Tail(l), r)
       ELSE <<r[1]>> \o Merge(l, Tail(r))

RECURSIVE MergeSort(_)
MergeSort(a) ==
  IF Len(a) < 2 THEN a
  ELSE LET mid == Len(a) \div 2
       IN  Merge(MergeSort(SubSeq(a, 1, mid)),
                 MergeSort(SubSeq(a, mid + 1, Len(a))))

\* Array.from(tmpLevels[d] ?? []).sort((a, b) => parseLevel(a) - parseLevel(b))
SortLevels(a, impl) == IF impl = "v8" THEN V8Sort(a) ELSE MergeSort(a)

(* ------------------- catalog derivation (lines 432-458) ---------------- *)

\* Set.prototype.add on an insertion-ordered Set, kept as a sequence
SetAdd(s, x) == IF Includes(s, x) THEN s ELSE Append(s, x)

\* (obj[k] ??= new Set()).add(x) on an object used as a dictionary
DictAdd(obj, k, x) ==
  IF k \in DOMAIN obj THEN [obj EXCEPT ![k] = SetAdd(@, x)]
  ELSE [j \in (DOMAIN obj) \cup {k} |-> IF j = k THEN <<x>> ELSE obj[j]]

CONSTRUCTOR == <<"c", "o", "n", "s", "t", "r", "u", "c", "t", "o", "r">>

\* tmpLevels is an object literal {}, so it inherits the properties of
\* Object.prototype: for such a name tmpLevels[name] is already a non-nullish
\* value that is not a Set.  "constructor" stands for these names.
InheritedKeys == {CONSTRUCTOR}

\* (tmpLevels[r.dem] ??= new Set()).add(x) raises a TypeError when r.dem names
\* an inherited property: ??= leaves the inherited value in place and that
\* value has no add method
AddThrows(r) ==
  /\ r.category = "flood_scenarios" /\ Truthy(r.dem) /\ Truthy(r.flood)
  /\ r.dem \in InheritedKeys

\* the for loop over index raises at the first such record
Throws(recs) == \E i \in 1..Len(recs) : AddThrows(recs[i])

\* obj[k] ?? [] (terrain records named like an inherited property are not
\* among the enumerated inputs)
Lookup(obj, k) == IF k \in DOMAIN obj THEN obj[k] ELSE <<>>

\* `${r.dem}|${r.flood}`
Key(dem, flood) == dem \o <<"|">> \o flood

EmptyDict == [k \in {} |-> <<>>]

\* one iteration of `for (const r of index)`
ScanStep(acc, r) ==
  LET isDem   == r.category = "dem" /\ Truthy(r.name)
      isFlood == r.category = "flood_scenarios" /\ Truthy(r.dem) /\ Truthy(r.flood)
  IN  [demSet        |-> IF isDem THEN SetAdd(acc.demSet, r.name) ELSE acc.demSet,
       tmpLevels     |-> IF isFlood THEN DictAdd(acc.tmpLevels, r.dem, String(r.flood))
                         ELSE acc.tmpLevels,
       tmpLevel2hand |-> IF isFlood
                         THEN DictAdd(acc.tmpLevel2hand, Key(r.dem, r.flood),
                                      Coalesce(r.hand, Empty))
                         ELSE acc.tmpLevel2hand]

RECURSIVE Scan(_)
Scan(recs) ==
  IF recs = <<>>
  THEN [demSet |-> <<>>, tmpLevels |-> EmptyDict, tmpLevel2hand |-> EmptyDict]
  ELSE ScanStep(Scan(SubSeq(recs, 1, Len(recs) - 1)), recs[Len(recs)])

HAND_2000 == <<"h", "a", "n", "d", "_", "2", "0", "0", "0">>

\* ResolveHand without the hand_2000 preference: always the first candidate
ResolveHand_first(hands) == IF Len(hands) > 0 THEN hands[1] ELSE Empty

\* hands.includes("hand_2000") ? "hand_2000" : (hands[0] ?? "")
ResolveHand(hands) ==
  IF Includes(hands, HAND_2000) THEN HAND_2000
  ELSE IF Len(hands) > 0 THEN hands[1] ELSE Empty

\* the body of the second loop for one d of demList
LevelsOf(acc, d, impl) == SortLevels(Lookup(acc.tmpLevels, d), impl)

\* HandsOf that records a level only when a correction dataset was resolved
HandsOf_onlyNamed(acc, d, levels) ==
  [l \in {k \in Range(levels) :
            ResolveHand(Lookup(acc.tmpLevel2hand, Key(d, k))) # Empty} |->
     ResolveHand(Lookup(acc.tmpLevel2hand, Key(d, l)))]

HandsOf(acc, d, levels) ==
  [l \in Range(levels) |-> ResolveHand(Lookup(acc.tmpLevel2hand, Key(d, l)))]

BuildCatalog(recs, impl) ==
  LET acc     == Scan(recs)
      demList == SortStrings(acc.demSet)
  IN  [DEM_LIST          |-> demList,
       DEM_LEVELS        |-> [d \in Range(demList) |-> LevelsOf(acc, d, impl)],
       DEM_LEVEL_TO_HAND |-> [d \in Range(demList) |->
                                 HandsOf(acc, d, LevelsOf(acc, d, impl))]]

(* ----------- catalog derivation: the copy of src/src/App.tsx ----------- *)

\* one iteration of the loop of src/src/App.tsx (lines 143-150), which adds
\* r.flood as it is
App_ScanStep(acc, r) ==
  LET isDem   == r.category = "dem" /\ Truthy(r.name)
      isFlood == r.category = "flood_scenarios" /\ Truthy(r.dem) /\ Truthy(r.flood)
  IN  [demSet        |-> IF isDem THEN SetAdd(acc.demSet, r.name) ELSE acc.demSet,
       tmpLevels     |-> IF isFlood THEN DictAdd(acc.tmpLevels, r.dem, r.flood)
                         ELSE acc.tmpLevels,
       tmpLevel2hand |-> IF isFlood
                         THEN DictAdd(acc.tmpLevel2hand, Key(r.dem, r.flood),
                                      Coalesce(r.hand, Empty))
                         ELSE acc.tmpLevel2hand]

RECURSIVE App_Scan(_)
App_Scan(recs) ==
  IF recs = <<>>
  THEN [demSet |-> <<>>, tmpLevels |-> EmptyDict, tmpLevel2hand |-> EmptyDict]
  ELSE App_ScanStep(App_Scan(SubSeq(recs, 1, Len(recs) - 1)), recs[Len(recs)])

\* the second loop of src/src/App.tsx (lines 152-164) is that of part_000
App_BuildCatalog(recs, impl) ==
  LET acc     == App_Scan(recs)
      demList == SortStrings(acc.demSet)
  IN  [DEM_LIST          |-> demList,
       DEM_LEVELS        |-> [d \in Range(demList) |-> LevelsOf(acc, d, impl)],
       DEM_LEVEL_TO_HAND |-> [d \in Range(demList) |->
                                 HandsOf(acc, d, LevelsOf(acc, d, impl))]]

(* -------- catalog derivation: the oldest draft (lines 1522-1552) ------- *)

\* one iteration of the loop of the draft, which adds r.hand || ""
Draft_ScanStep(acc, r) ==
  LET isDem   == r.category = "dem" /\ Truthy(r.name)
      isFlood == r.category = "flood_scenarios" /\ Truthy(r.dem) /\ Truthy(r.flood)
  IN  [demSet        |-> IF isDem THEN SetAdd(acc.demSet, r.name) ELSE acc.demSet,
       tmpLevels     |-> IF isFlood THEN DictAdd(acc.tmpLevels, r.dem, r.flood)
                         ELSE acc.tmpLevels,
       tmpLevel2hand |-> IF isFlood
                         THEN DictAdd(acc.tmpLevel2hand, Key(r.dem, r.flood),
                                      Or(r.hand, Empty))
                         ELSE acc.tmpLevel2hand]

RECURSIVE Draft_Scan(_)
Draft_Scan(recs) ==
  IF recs = <<>>
  THEN [demSet |-> <<>>, tmpLevels |-> EmptyDict, tmpLevel2hand |-> EmptyDict]
  ELSE Draft_ScanStep(Draft_Scan(SubSeq(recs, 1, Len(recs) - 1)), recs[Len(recs)])

\* the draft's resolution without the hand_2000 preference
Draft_ResolveHand_first(hands) == IF Len(hands) > 0 THEN Or(hands[1], Empty) ELSE Empty

\* hands.includes("hand_2000") ? "hand_2000" : (hands[0] || "")
Draft_ResolveHand(hands) ==
  IF Includes(hands, HAND_2000) THEN HAND_2000
  ELSE IF Len(hands) > 0 THEN Or(hands[1], Empty) ELSE Empty

Draft_HandsOf(acc, d, levels) ==
  [l \in Range(levels) |-> Draft_ResolveHand(Lookup(acc.tmpLevel2hand, Key(d, l)))]

Draft_BuildCatalog(recs, impl) ==
  LET acc     == Draft_Scan(recs)
      demList == SortStrings(acc.demSet)
  IN  [DEM_LIST          |-> demList,
       DEM_LEVELS        |-> [d \in Range(demList) |-> LevelsOf(acc, d, impl)],
       DEM_LEVEL_TO_HAND |-> [d \in Range(demList) |->
                                 Draft_HandsOf(acc, d, LevelsOf(acc, d, impl))]]

\* the derivation of the source file that is compiled into the application
CatalogOf(f, recs, impl) ==
  IF f = "part_000" THEN BuildCatalog(recs, impl) ELSE App_BuildCatalog(recs, impl)

(* --------------------- tile URLs (lines 62, 149-168) ------------------- *)

\* TC_BASE = import.meta.env.DEV ? "/tc" : "https://geohydroai.org/tc"
TC_BASES == {<<"/", "t", "c">>,
             <<"h", "t", "t", "p", "s", ":", "/", "/", "g", "e", "o", "h", "y", "d", "r", "o", "a", "i", ".", "o", "r", "g", "/", "t", "c">>}

\* an encoding that leaves only letters and digits as they are
Unreserved_alnum(c) ==
  \/ CharCode[c] \in 48..57
  \/ CharCode[c] \in 65..90
  \/ CharCode[c] \in 97..122

\* characters that encodeURIComponent leaves as they are
Unreserved(c) ==
  \/ CharCode[c] \in 48..57
  \/ CharCode[c] \in 65..90
  \/ CharCode[c] \in 97..122
  \/ c \in {"-", "_", ".", "!", "~", "*", "'", "(", ")"}

HexDigit(n) ==
  <<"0", "1", "2", "3", "4", "5", "6", "7", "8", "9", "A", "B", "C", "D", "E", "F">>[n + 1]

\* a character outside the unreserved set becomes %XX (all enumerated
\* characters are single UTF-8 bytes)
EncodeChar(c) ==
  IF Unreserved(c) THEN <<c>>
  ELSE <<"%", HexDigit(CharCode[c] \div 16), HexDigit(CharCode[c] % 16)>>

RECURSIVE EncodeChars(_)
EncodeChars(s) ==
  IF s = <<>> THEN <<>>
  ELSE EncodeChar(s[1]) \o EncodeChars(Tail(s))

\* the exception encodeURIComponent raises
URIError == <<"URIError">>

\* a string that is not well-formed UTF-16: it holds a high surrogate that is
\* not followed by a low surrogate, or a low surrogate that does not follow a
\* high one
LoneSurrogate(s) ==
  \E i \in 1..Len(s) :
    \/ /\ CharCode[s[i]] \in 55296..56319
       /\ ~(i < Len(s) /\ CharCode[s[i + 1]] \in 56320..57343)
    \/ /\ CharCode[s[i]] \in 56320..57343
       /\ ~(i > 1 /\ CharCode[s[i - 1]] \in 55296..56319)

\* encodeURIComponent raises URIError for a string with a lone surrogate and
\* encodes every other string character by character (no surrogate pair is
\* among the enumerated inputs)
encodeURIComponent(s) == IF LoneSurrogate(s) THEN URIError ELSE EncodeChars(s)

\* the identity that src/src/App.tsx applies where part_000 encodes
Interpolate(s) == s

RECURSIVE NatToStr(_)
NatToStr(n) ==
  IF n < 10 THEN <<HexDigit(n)>>
  ELSE NatToStr(n \div 10) \o <<HexDigit(n % 10)>>

\* `${n}` for an integer n
NumToStr(n) == IF n < 0 THEN <<"-">> \o NatToStr(0 - n) ELSE NatToStr(n)

\* &stretch_range=[${stretch[0]},${stretch[1]}]
StretchParam(stretch) ==
  <<"&", "s", "t", "r", "e", "t", "c", "h", "_", "r", "a", "n", "g", "e", "=", "[">> \o NumToStr(stretch[1]) \o <<",">> \o
  NumToStr(stretch[2]) \o <<"]">>

TilePath == <<"/", "{", "z", "}", "/", "{", "x", "}", "/", "{", "y", "}", ".", "p", "n", "g">>

\* buildDemUrl of part_000 (lines 149-152); an exception raised by
\* encodeURIComponent leaves the function
buildDemUrl(base, dem, cmap, stretch) ==
  IF encodeURIComponent(dem) = URIError \/ encodeURIComponent(cmap) = URIError THEN URIError
  ELSE
  base \o <<"/", "s", "i", "n", "g", "l", "e", "b", "a", "n", "d", "/", "d", "e", "m", "/">> \o encodeURIComponent(dem) \o TilePath \o
  <<"?", "c", "o", "l", "o", "r", "m", "a", "p", "=">> \o encodeURIComponent(cmap) \o StretchParam(stretch)

\* buildDemUrl of src/src/App.tsx (lines 109-110)
App_buildDemUrl(base, dem, cmap, stretch) ==
  base \o <<"/", "s", "i", "n", "g", "l", "e", "b", "a", "n", "d", "/", "d", "e", "m", "/">> \o Interpolate(dem) \o TilePath \o
  <<"?", "c", "o", "l", "o", "r", "m", "a", "p", "=">> \o Interpolate(cmap) \o StretchParam(stretch)

\* const layer = `${dem}_${hand}_flood_${level}`
LayerName(dem, hand, level) ==
  dem \o <<"_">> \o hand \o <<"_", "f", "l", "o", "o", "d", "_">> \o level

\* DefaultPureBlue with the default reversed: pureBlue = true
DefaultPureBlue_true(pureBlue) == IF pureBlue = "omitted" THEN "true" ELSE pureBlue

\* pureBlue = false: the default of the sixth parameter
DefaultPureBlue(pureBlue) == IF pureBlue = "omitted" THEN "false" ELSE pureBlue

PureBlueQuery == <<"?", "c", "o", "l", "o", "r", "m", "a", "p", "=", "c", "u", "s", "t", "o", "m", "&", "c", "o", "l", "o", "r", "s", "=", "0", "0", "0", "0", "f", "f">>

\* buildFloodUrl whose pure-blue branch still sends the caller's colormap
buildFloodUrl_cmapInPureBlue(base, dem, hand, level, cmap, stretch, pureBlue) ==
  IF encodeURIComponent(LayerName(dem, hand, level)) = URIError
     \/ encodeURIComponent(cmap) = URIError THEN URIError
  ELSE
  base \o <<"/", "s", "i", "n", "g", "l", "e", "b", "a", "n", "d", "/", "f", "l", "o", "o", "d", "_", "s", "c", "e", "n", "a", "r", "i", "o", "s", "/">> \o
  encodeURIComponent(LayerName(dem, hand, level)) \o TilePath \o
  <<"?", "c", "o", "l", "o", "r", "m", "a", "p", "=">> \o encodeURIComponent(cmap) \o
  (IF DefaultPureBlue(pureBlue) = "true" THEN <<"&", "c", "o", "l", "o", "r", "s", "=", "0", "0", "0", "0", "f", "f">> ELSE <<>>) \o
  StretchParam(stretch)

\* buildFloodUrl of part_000 (lines 155-168); the colormap is encoded only
\* in the branch that uses it
buildFloodUrl(base, dem, hand, level, cmap, stretch, pureBlue) ==
  IF encodeURIComponent(LayerName(dem, hand, level)) = URIError THEN URIError
  ELSE IF DefaultPureBlue(pureBlue) # "true" /\ encodeURIComponent(cmap) = URIError
  THEN URIError
  ELSE
  LET b == base \o <<"/", "s", "i", "n", "g", "l", "e", "b", "a", "n", "d", "/", "f", "l", "o", "o", "d", "_", "s", "c", "e", "n", "a", "r", "i", "o", "s", "/">> \o
           encodeURIComponent(LayerName(dem, hand, level)) \o TilePath
  IN  IF DefaultPureBlue(pureBlue) = "true"
      THEN b \o PureBlueQuery \o StretchParam(stretch)
      ELSE b \o <<"?", "c", "o", "l", "o", "r", "m", "a", "p", "=">> \o encodeURIComponent(cmap) \o StretchParam(stretch)

\* buildFloodUrl of src/src/App.tsx (lines 112-125)
App_buildFloodUrl(base, dem, hand, level, cmap, stretch, pureBlue) ==
  LET b == base \o <<"/", "s", "i", "n", "g", "l", "e", "b", "a", "n", "d", "/", "f", "l", "o", "o", "d", "_", "s", "c", "e", "n", "a", "r", "i", "o", "s", "/">> \o
           Interpolate(LayerName(dem, hand, level)) \o TilePath
  IN  IF DefaultPureBlue(pureBlue) = "true"
      THEN b \o PureBlueQuery \o StretchParam(stretch)
      ELSE b \o <<"?", "c", "o", "l", "o", "r", "m", "a", "p", "=">> \o Interpolate(cmap) \o StretchParam(stretch)

Files == {"part_000", "App.tsx"}

\* the builders of the source file that is compiled into the application
DemUrlOf(f, base, dem, cmap, stretch) ==
  IF f = "part_000" THEN buildDemUrl(base, dem, cmap, stretch)
  ELSE App_buildDemUrl(base, dem, cmap, stretch)

FloodUrlOf(f, base, dem, hand, level, cmap, stretch, pureBlue) ==
  IF f = "part_000" THEN buildFloodUrl(base, dem, hand, level, cmap, stretch, pureBlue)
  ELSE App_buildFloodUrl(base, dem, hand, level, cmap, stretch, pureBlue)

(* ------------------------- the enumerated inputs ----------------------- *)

HAND_500 == <<"h", "a", "n", "d", "_", "5", "0", "0">>

L5m == <<"5", "m">>

L10m == <<"1", "0", "m">>

L5p0m == <<"5", ".", "0", "m">>

L2M == <<"2", "M">>

Lbad == <<"x">>

Rec(c, n, d, h, f) == [category |-> c, name |-> n, dem |-> d, hand |-> h, flood |-> f]

Flood(d, h, f) == Rec("flood_scenarios", d \o <<"_">> \o f, d, h, f)

\* the layer records an index is drawn from: terrain records (one without a
\* name), flood scenarios with well-formed, equal-valued and malformed levels,
\* with and without a correction dataset, two whose dem|flood keys coincide,
\* one without a level, one whose dem is the name of an inherited object
\* property, and a record of an unrecognized category
Records ==
  { Rec("dem", <<"a">>, Null, Null, Null),
    Rec("dem", <<"b">>, Null, Null, Null),
    Rec("dem", Empty, Null, Null, Null),
    Flood(<<"a">>, HAND_2000, L5m),
    Flood(<<"a">>, HAND_500, L5m),
    Flood(<<"a">>, Null, L5m),
    Flood(<<"a">>, HAND_500, L10m),
    Flood(<<"a">>, HAND_500, L5p0m),
    Flood(<<"a">>, Empty, Lbad),
    Flood(<<"b">>, HAND_2000, L2M),
    Flood(<<"a", "|", "b">>, HAND_500, <<"c">>),
    Flood(<<"a">>, Null, <<"b", "|", "c">>),
    Rec("flood_scenarios", <<"a", "_">>, <<"a">>, HAND_2000, Null),
    Flood(CONSTRUCTOR, HAND_500, L5m),
    Rec("other", <<"c">>, <<"a">>, HAND_2000, <<"1", "m">>) }

\* arguments the URL builders are applied to: catalog-shaped names, empty
\* strings, strings with "/", "?", "#", "%", "&", "=", spaces and the tile
\* placeholder, and a string with a lone surrogate
DemArgs == {<<"a", "l", "o", "s", "_", "d", "e", "m">>, Empty, <<"a", "/", "b", "?", "#">>,
            <<"{", "z", "}", "/", "{", "x", "}", "/", "{", "y", "}">>, <<"x", " ", "%">>,
            <<"a", "uD800">>}

HandArgs == {HAND_2000, Empty, <<"h", "/", "%">>}

LevelArgs == {L5m, Empty, <<"1", " ", "m">>, <<"2", ".", "5", "-", "M">>}

CmapArgs == {<<"b", "l", "u", "e", "s">>, <<"t", "e", "r", "r", "a", "i", "n">>,
             <<"x", "&", "c", "o", "l", "o", "r", "s", "=", "f">>, <<"{", "z", "}", "/", "{", "x", "}", "/", "{", "y", "}">>}

StretchArgs == {<<0, 5>>, <<250, 2200>>, <<-1, 10>>}

PureBlueArgs == {"true", "false", "omitted"}

NoReq == [base |-> Empty, dem |-> Empty, hand |-> Empty, level |-> Empty,
          cmap |-> Empty, stretch |-> <<0, 0>>, pureBlue |-> "omitted"]

NoOut == [dem |-> Null, flood |-> Null]

RECURSIVE SeqsUpTo(_, _)
SeqsUpTo(S, n) ==
  IF n = 0 THEN {<<>>}
  ELSE LET shorter == SeqsUpTo(S, n - 1)
       IN  shorter \cup {Append(q, x) : q \in {t \in shorter : Len(t) = n - 1}, x \in S}

NoCatalog == [DEM_LIST |-> <<>>, DEM_LEVELS |-> <<>>, DEM_LEVEL_TO_HAND |-> <<>>]

(* ------------- the App component: state, URLs and layers --------------- *)

\* import.meta.env.VITE_MAPBOX_TOKEN: not set, or set to a token
Tokens == {Null, <<"p", "x">>}

\* MAPBOX_TOKEN = (import.meta.env.VITE_MAPBOX_TOKEN as string) || ""
MAPBOX_TOKEN(e) == IF Truthy(e.token) THEN e.token ELSE Empty

\* HAS_MAPBOX = Boolean(MAPBOX_TOKEN)
HAS_MAPBOX(e) == Truthy(MAPBOX_TOKEN(e))

ALOS_DEM == <<"a", "l", "o", "s", "_", "d", "e", "m">>

ASTER_DEM == <<"a", "s", "t", "e", "r", "_", "d", "e", "m">>

\* demCmap, floodCmapA, floodCmapB
TERRAIN == <<"t", "e", "r", "r", "a", "i", "n">>

BLUES == <<"b", "l", "u", "e", "s">>

REDS == <<"r", "e", "d", "s">>

\* the useState cells of App with their initial values; an opacity is kept
\* in hundredths
InitialState(f) ==
  IF f = "part_000"
  THEN [demName |-> ALOS_DEM, showDem |-> TRUE, opacityDEM |-> 30,
        demA |-> ALOS_DEM, levelA |-> L5m, showFloodA |-> TRUE, opacityA |-> 60,
        demB |-> ASTER_DEM, levelB |-> L5m, showFloodB |-> TRUE, opacityB |-> 45]
  ELSE [demName |-> Empty, showDem |-> FALSE, opacityDEM |-> 30,
        demA |-> Empty, levelA |-> Empty, showFloodA |-> TRUE, opacityA |-> 60,
        demB |-> Empty, levelB |-> Empty, showFloodB |-> TRUE, opacityB |-> 45]

\* pickDefaultLevel that ignores "5m": always the first level
pickDefaultLevel_first(levels) == IF Len(levels) > 0 THEN levels[1] ELSE Empty

\* pickDefaultLevel of part_000: normalized.find(v => v === "5m") ??
\* normalized[0] ?? "" (the levels of a catalog are strings, which String()
\* returns as they are)
pickDefaultLevel(levels) ==
  IF \E i \in 1..Len(levels) : levels[i] = L5m THEN L5m
  ELSE IF Len(levels) > 0 THEN levels[1] ELSE Empty

\* pickDefaultLevel of src/src/App.tsx:
\* levels.includes("5m") ? "5m" : (levels[0] ?? "")
App_pickDefaultLevel(levels) ==
  IF Includes(levels, L5m) THEN L5m
  ELSE IF Len(levels) > 0 THEN levels[1] ELSE Empty

PickDefaultLevelOf(f, levels) ==
  IF f = "part_000" THEN pickDefaultLevel(levels) ELSE App_pickDefaultLevel(levels)

\* dem && level ? (DEM_LEVEL_TO_HAND[dem]?.[level] ?? "") : ""
HandOf(cat, dem, level) ==
  IF Truthy(dem) /\ Truthy(level)
  THEN IF dem \in DOMAIN cat.DEM_LEVEL_TO_HAND
       THEN IF level \in DOMAIN cat.DEM_LEVEL_TO_HAND[dem]
            THEN cat.DEM_LEVEL_TO_HAND[dem][level]
            ELSE Empty
       ELSE Empty
  ELSE Empty

\* demName ? buildDemUrl(demName, ...) : "": the arguments buildDemUrl is
\* called with in one render (no call: the empty set)
DemArgsOf(u) == IF Truthy(u.demName) THEN {u.demName} ELSE {}

\* FloodArgsOf without the test of the resolved correction dataset
FloodArgsOf_ignoresHand(cat, dem, level) ==
  IF Truthy(dem) /\ Truthy(level) THEN {<<dem, HandOf(cat, dem, level), level>>} ELSE {}

\* dem && level && hand ? buildFloodUrl(dem, hand, level, ...) : "": the
\* arguments buildFloodUrl is called with in one render
FloodArgsOf(cat, dem, level) ==
  LET hand == HandOf(cat, dem, level)
  IN  IF Truthy(dem) /\ Truthy(level) /\ Truthy(hand) THEN {<<dem, hand, level>>} ELSE {}

\* the sixth argument of the calls of buildFloodUrl: none in part_000, false
\* in src/src/App.tsx
PureBlueArg(f) == IF f = "part_000" THEN "omitted" ELSE "false"

\* demUrl, floodUrlA, floodUrlB of one render, with the calls that built them
UrlsAt(f, base, cat, u) ==
  LET flood(args, cmap) ==
        IF args = {} THEN Empty
        ELSE LET a == CHOOSE x \in args : TRUE
             IN  FloodUrlOf(f, base, a[1], a[2], a[3], cmap, <<0, 5>>, PureBlueArg(f))
      at(dc, fa, fb) ==
        [demUrl    |-> IF dc = {} THEN Empty
                       ELSE DemUrlOf(f, base, CHOOSE x \in dc : TRUE, TERRAIN, <<250, 2200>>),
         floodUrlA |-> flood(fa, BLUES),
         floodUrlB |-> flood(fb, REDS),
         calls     |-> [dem |-> dc, floodA |-> fa, floodB |-> fb]]
  IN  at(DemArgsOf(u), FloodArgsOf(cat, u.demA, u.levelA), FloodArgsOf(cat, u.demB, u.levelB))

\* Urls that builds a URL only when a basemap token is configured
Urls_needToken(f, e, cat, u) ==
  IF HAS_MAPBOX(e) THEN UrlsAt(f, e.base, cat, u)
  ELSE [demUrl |-> Empty, floodUrlA |-> Empty, floodUrlB |-> Empty,
        calls |-> [dem |-> {}, floodA |-> {}, floodB |-> {}]]

\* the URLs of a render in the environment e: of e only TC_BASE is read
Urls(f, e, cat, u) == UrlsAt(f, e.base, cat, u)

\* makeTile(COMMON, id, url, opacity) / new TileLayer({id, data, ...})
makeTile(id, url, opacity) == [id |-> id, data |-> url, opacity |-> opacity]

\* the callback of the layers useMemo
TileLayers(urls, u) ==
  (IF Truthy(urls.demUrl) /\ u.showDem
   THEN <<makeTile("dem-tiles", urls.demUrl, u.opacityDEM)>> ELSE <<>>) \o
  (IF Truthy(urls.floodUrlA) /\ u.showFloodA
   THEN <<makeTile("flood-tiles-A", urls.floodUrlA, u.opacityA)>> ELSE <<>>) \o
  (IF Truthy(urls.floodUrlB) /\ u.showFloodB
   THEN <<makeTile("flood-tiles-B", urls.floodUrlB, u.opacityB)>> ELSE <<>>)

\* LayerDeps without the opacities
LayerDeps_noOpacity(urls, u) ==
  <<urls.demUrl, urls.floodUrlA, urls.floodUrlB, u.showDem, u.showFloodA, u.showFloodB>>

\* the dependency list of the layers useMemo
LayerDeps(urls, u) ==
  <<urls.demUrl, urls.floodUrlA, urls.floodUrlB, u.showDem, u.showFloodA, u.showFloodB,
    u.opacityDEM, u.opacityA, u.opacityB>>

MAP == <<"M", "a", "p">>

\* the callback of the mapEl useMemo: HAS_MAPBOX ? <Map .../> : null
MapEl(e) == IF HAS_MAPBOX(e) THEN MAP ELSE Null

\* the values the dependency lists of the effects are made of
Sel(u) == [demName |-> u.demName, demA |-> u.demA, levelA |-> u.levelA,
           demB |-> u.demB, levelB |-> u.levelB]

NoEnv == [base |-> Empty, token |-> Null]

NoUi == InitialState("App.tsx")

\* the three useEffect of App
Effects == {"defaults", "levelA", "levelB"}

\* the cells in the dependency list of an effect (DEM_LIST and DEM_LEVELS,
\* which are in the lists too, never change: index is never set)
EffectDeps(f, eff) ==
  IF eff = "levelA" THEN {"demA", "levelA"}
  ELSE IF eff = "levelB" THEN {"demB", "levelB"}
  ELSE IF f = "part_000" THEN {} ELSE {"demName", "demA", "demB"}

\* what a render leaves behind: the URLs and the calls that built them, the
\* two memoized values with the dependencies of the layer list, the
\* dependencies of the effects, the effects it scheduled, and the number of
\* times the callback of the catalog useMemo has run
NoView == [mounted |-> FALSE, catalogRuns |-> 0, demUrl |-> Empty, floodUrlA |-> Empty, floodUrlB |-> Empty,
           calls |-> [dem |-> {}, floodA |-> {}, floodB |-> {}],
           memo |-> <<>>, layers |-> <<>>, mapEl |-> Null,
           deps |-> Sel(NoUi), pending |-> {}]

\* a catalog useMemo that runs its callback in every render
CatalogRuns_everyRender(v) == v.catalogRuns + 1

\* useMemo(() => { ... }, [index]): the callback runs in the first render
\* and when index differs from the previous render's, which it never does
\* (index has no setter)
CatalogRuns(v) == IF v.mounted THEN v.catalogRuns ELSE v.catalogRuns + 1

\* one execution of the body of App: a memoized value is recomputed on the
\* first render and (layers) when a dependency differs from the previous
\* render's; an effect is scheduled on the first render and when one of its
\* dependencies differs from the previous render's
RenderOf(f, e, cat, u, v) ==
  LET render(urls, deps) ==
        [mounted    |-> TRUE,
         catalogRuns |-> CatalogRuns(v),
         demUrl     |-> urls.demUrl,
         floodUrlA  |-> urls.floodUrlA,
         floodUrlB  |-> urls.floodUrlB,
         calls      |-> urls.calls,
         memo       |-> deps,
         layers     |-> IF ~v.mounted \/ v.memo # deps THEN TileLayers(urls, u) ELSE v.layers,
         mapEl      |-> IF ~v.mounted THEN MapEl(e) ELSE v.mapEl,
         deps       |-> Sel(u),
         pending    |-> IF ~v.mounted THEN Effects
                        ELSE {eff \in Effects : \E k \in EffectDeps(f, eff) : v.deps[k] # u[k]}]
      body(urls) == render(urls, LayerDeps(urls, u))
  IN  body(Urls(f, e, cat, u))

(* ------------------ the App component: the drawer panel ---------------- *)

\* only part_000 has the drawer (isOpen, pinned, isDesktop); the panel of
\* src/src/App.tsx is always there
HasPanel(f) == f = "part_000"

\* the values of window.innerWidth that are enumerated: two on each side of
\* the breakpoint
Widths == {500, 767, 768, 1024}

\* window.innerWidth >= 768
Desktop(width) == width >= 768

\* drawerStyle whose transform reads open only
drawerStyle_openOnly(open, pinned, isDesktop) ==
  [transform |-> IF open THEN "translateX(0)" ELSE "translateX(-110%)",
   maxHeight |-> IF isDesktop THEN "80vh" ELSE "100vh"]

\* drawerStyle: the two properties that depend on the arguments
drawerStyle(open, pinned, isDesktop) ==
  [transform |-> IF open \/ pinned THEN "translateX(0)" ELSE "translateX(-110%)",
   maxHeight |-> IF isDesktop THEN "80vh" ELSE "100vh"]

\* backdropStyle: the two properties that depend on the argument
backdropStyle(visible) ==
  [opacity |-> IF visible THEN 1 ELSE 0,
   pointerEvents |-> IF visible THEN "auto" ELSE "none"]

\* the three useState cells of the panel with their initial values, what the
\* last render made of them (the styles of drawer and backdrop, and whether
\* the close button is in the panel), and the panel effects it scheduled
NoPanel == [isOpen |-> TRUE, pinned |-> TRUE, isDesktop |-> TRUE,
            drawer |-> drawerStyle(TRUE, TRUE, TRUE), backdrop |-> backdropStyle(FALSE),
            closeButton |-> FALSE, pending |-> {}]

PanelCells(p) == <<p.isOpen, p.pinned, p.isDesktop>>

\* the panel part of one render of App that follows the render prev (first:
\* there is none); the effect with the empty dependency list is scheduled
\* by the first render only, the one over [isDesktop] also when isDesktop
\* differs from the previous render's
RenderPanel(f, p, prev, first) ==
  IF ~HasPanel(f) THEN p
  ELSE [p EXCEPT !.drawer = drawerStyle(p.isOpen, p.pinned, p.isDesktop),
                 !.backdrop = backdropStyle(p.isOpen /\ ~p.pinned),
                 !.closeButton = ~p.pinned,
                 !.pending = IF first THEN {"resize", "pinned"}
                             ELSE IF p.isDesktop # prev.isDesktop THEN {"pinned"} ELSE {}]

\* PanelEffectsOf whose [isDesktop] effect leaves isOpen alone
PanelEffectsOf_keepOpen(p, width) ==
  [p EXCEPT !.isDesktop = IF "resize" \in p.pending THEN Desktop(width) ELSE @,
            !.pinned = IF "pinned" \in p.pending THEN p.isDesktop ELSE @]

\* the cells after the scheduled panel effects of one render have run: the
\* first calls onResize(), the second setPinned(isDesktop) and, on mobile,
\* setIsOpen(false), both with the values of that render
PanelEffectsOf(p, width) ==
  [p EXCEPT !.isDesktop = IF "resize" \in p.pending THEN Desktop(width) ELSE @,
            !.pinned = IF "pinned" \in p.pending THEN p.isDesktop ELSE @,
            !.isOpen = IF "pinned" \in p.pending /\ ~p.isDesktop THEN FALSE ELSE @]

(* ------------------------------ behaviour ------------------------------ *)

\* useState(layersIndex): the index is fixed for the session
Init ==
  /\ index \in SeqsUpTo(Records, MaxRecs)
  /\ catalog = NoCatalog
  /\ pc = "load"
  /\ file = "part_000"
  /\ req = NoReq
  /\ out = NoOut
  /\ env = NoEnv
  /\ ui = NoUi
  /\ view = NoView
  /\ panel = NoPanel

\* the first render evaluates the useMemo over [index]; an exception raised
\* inside it leaves the component without a catalog
ComputeCatalog ==
  /\ pc = "load"
  /\ IF Throws(index)
     THEN pc' = "failed" /\ catalog' = catalog
     ELSE /\ \E impl \in SortImpls : catalog' = BuildCatalog(index, impl)
          /\ pc' = "ready"
  /\ UNCHANGED <<index, file, req, out, env, ui, view, panel>>

Next == ComputeCatalog

Spec == Init /\ [][Next]_vars

(* ----------------------- behaviour: URL builders ----------------------- *)

\* one application of the builders of either source file to enumerated
\* arguments
InitUrl ==
  /\ index = <<>>
  /\ catalog = NoCatalog
  /\ pc = "call"
  /\ file \in Files
  /\ req \in [base : TC_BASES, dem : DemArgs, hand : HandArgs, level : LevelArgs,
              cmap : CmapArgs, stretch : StretchArgs, pureBlue : PureBlueArgs]
  /\ out = NoOut
  /\ env = NoEnv
  /\ ui = NoUi
  /\ view = NoView
  /\ panel = NoPanel

CallBuildDemUrl ==
  /\ pc = "call"
  /\ out.dem = Null
  /\ out' = [out EXCEPT !.dem = DemUrlOf(file, req.base, req.dem, req.cmap, req.stretch)]
  /\ UNCHANGED <<index, catalog, pc, file, req, env, ui, view, panel>>

CallBuildFloodUrl ==
  /\ pc = "call"
  /\ out.flood = Null
  /\ out' = [out EXCEPT !.flood = FloodUrlOf(file, req.base, req.dem, req.hand, req.level,
                                            req.cmap, req.stretch, req.pureBlue)]
  /\ UNCHANGED <<index, catalog, pc, file, req, env, ui, view, panel>>

NextUrl == CallBuildDemUrl \/ CallBuildFloodUrl

SpecUrl == InitUrl /\ [][NextUrl]_vars

(* ----------------------- behaviour: the App component ------------------ *)

\* the layer indexes the component is mounted with: both hard-coded terrain
\* models with levels where "5m" is and is not the first one; another
\* model, one level of which has no correction dataset; a model without
\* flood scenarios; a flood scenario without a terrain record; no record at
\* all; and an index whose scan raises
AppIndexes ==
  { << Rec("dem", ALOS_DEM, Null, Null, Null), Rec("dem", ASTER_DEM, Null, Null, Null),
       Flood(ALOS_DEM, HAND_2000, L5m), Flood(ALOS_DEM, HAND_500, L10m),
       Flood(ASTER_DEM, HAND_2000, L2M), Flood(ASTER_DEM, HAND_500, L5m) >>,
    << Rec("dem", <<"a">>, Null, Null, Null),
       Flood(<<"a">>, HAND_500, L10m), Flood(<<"a">>, Empty, Lbad) >>,
    << Rec("dem", ALOS_DEM, Null, Null, Null) >>,
    << Flood(ALOS_DEM, HAND_2000, L5m) >>,
    << >>,
    << Rec("dem", <<"a">>, Null, Null, Null), Flood(CONSTRUCTOR, HAND_500, L5m) >> }

\* the environments the component is mounted in: the development build
\* (TC_BASE = "/tc") with and without a basemap token
AppEnvs == [base : {<<"/", "t", "c">>}, token : Tokens]

\* the position of the range inputs that is enumerated (hundredths)
OpacityArgs == {100}

\* a defaults effect that leaves the chosen models as they are
DefaultsEffect_none(f, cat, u) == Sel(u)

\* the body of the effect that repairs the chosen models.  part_000 (lines
\* 480-485) replaces a non-empty name that is not in DEM_LIST by DEM_LIST[0];
\* src/src/App.tsx (lines 193-197) replaces an empty name by DEM_LIST[0], for
\* B by DEM_LIST[1] when there is one.  The result maps each cell to the
\* value it is left with.
DefaultsEffect(f, cat, u) ==
  LET L == cat.DEM_LIST
      replaced(x) == IF Truthy(x) /\ ~Includes(L, x) /\ Len(L) > 0 THEN L[1] ELSE x
      filled(x, d) == IF ~Truthy(x) /\ Len(L) > 0 THEN d ELSE x
  IN  IF f = "part_000"
      THEN [demName |-> replaced(u.demName), demA |-> replaced(u.demA),
            demB |-> replaced(u.demB)]
      ELSE [demName |-> filled(u.demName, L[1]), demA |-> filled(u.demA, L[1]),
            demB |-> filled(u.demB, IF Len(L) > 1 THEN L[2] ELSE L[1])]

\* a level-validation effect that leaves the level as it is
LevelEffect_none(f, cat, dem, level) == level

\* the body of a level-validation effect (part_000 lines 487-497,
\* src/src/App.tsx lines 200-212): the value the level is left with
LevelEffect(f, cat, dem, level) ==
  LET lvls == Lookup(cat.DEM_LEVELS, dem)
  IN  IF f # "part_000" /\ ~Truthy(dem) THEN Empty
      ELSE IF Len(lvls) = 0 THEN Empty
      ELSE IF ~Includes(lvls, level) THEN PickDefaultLevelOf(f, lvls)
      ELSE level

\* the state after the scheduled effects of one render have run: every
\* effect reads the values of that render and the updates are applied
\* together
EffectsOf(f, cat, u, pending) ==
  LET d == IF "defaults" \in pending THEN DefaultsEffect(f, cat, u) ELSE Sel(u)
  IN  [u EXCEPT !.demName = d.demName, !.demA = d.demA, !.demB = d.demB,
                !.levelA = IF "levelA" \in pending
                           THEN LevelEffect(f, cat, u.demA, u.levelA) ELSE u.levelA,
                !.levelB = IF "levelB" \in pending
                           THEN LevelEffect(f, cat, u.demB, u.levelB) ELSE u.levelB]

\* the option a select shows for a value: the option with that value, and
\* the first option when there is none
Shown(value, options) == IF Includes(options, value) THEN value ELSE options[1]

\* validA / validB
ValidLevel(cat, dem, level) ==
  IF Includes(Lookup(cat.DEM_LEVELS, dem), level) THEN level ELSE Empty

InitApp ==
  /\ index \in AppIndexes
  /\ catalog = NoCatalog
  /\ pc = "load"
  /\ file \in Files
  /\ req = NoReq
  /\ out = NoOut
  /\ env \in AppEnvs
  /\ ui = InitialState(file)
  /\ view = NoView
  /\ panel = NoPanel

\* the first render: the catalog useMemo, the URLs, and the two other
\* useMemo; an exception in the catalog useMemo leaves nothing rendered
Mount ==
  /\ pc = "load"
  /\ IF Throws(index)
     THEN pc' = "failed" /\ UNCHANGED <<catalog, view, panel>>
     ELSE /\ \E impl \in SortImpls : catalog' = CatalogOf(file, index, impl)
          /\ view' = RenderOf(file, env, catalog', ui, view)
          /\ panel' = RenderPanel(file, panel, panel, TRUE)
          /\ pc' = "effects"
  /\ UNCHANGED <<index, file, req, out, env, ui>>

\* the effects of the last render, and the render their updates cause; w is
\* window.innerWidth, which only the effect that installs the resize listener
\* reads
RunEffects ==
  /\ pc = "effects"
  /\ ui' = EffectsOf(file, catalog, ui, view.pending)
  /\ \E w \in (IF "resize" \in panel.pending THEN Widths ELSE {0}) :
     LET p == PanelEffectsOf(panel, w)
     IN  IF ui' = ui /\ PanelCells(p) = PanelCells(panel)
         THEN /\ view' = [view EXCEPT !.pending = {}]
              /\ panel' = [panel EXCEPT !.pending = {}]
              /\ pc' = "idle"
         ELSE /\ view' = RenderOf(file, env, catalog, ui', view)
              /\ panel' = RenderPanel(file, p, panel, FALSE)
              /\ pc' = "effects"
  /\ UNCHANGED <<index, catalog, file, req, out, env>>

\* a change event of a control of the panel, which can be used while the
\* panel is on screen: the setter is called with the new value and the
\* component renders again
Update(u) ==
  /\ pc = "idle"
  /\ panel.drawer.transform = "translateX(0)"
  /\ ui' = u
  /\ view' = RenderOf(file, env, catalog, u, view)
  /\ pc' = "effects"
  /\ UNCHANGED <<index, catalog, file, req, out, env, panel>>

\* onChange of the three model selects, whose options are DEM_LIST
SetDemName ==
  \E d \in Range(catalog.DEM_LIST) :
    d # Shown(ui.demName, catalog.DEM_LIST) /\ Update([ui EXCEPT !.demName = d])

SetDemA ==
  \E d \in Range(catalog.DEM_LIST) :
    d # Shown(ui.demA, catalog.DEM_LIST) /\ Update([ui EXCEPT !.demA = d])

SetDemB ==
  \E d \in Range(catalog.DEM_LIST) :
    d # Shown(ui.demB, catalog.DEM_LIST) /\ Update([ui EXCEPT !.demB = d])

\* onChange of the two level selects, whose options are DEM_LEVELS[dem] ?? []
SetLevelA ==
  LET lvls == Lookup(catalog.DEM_LEVELS, ui.demA)
  IN  \E l \in Range(lvls) :
        l # Shown(ValidLevel(catalog, ui.demA, ui.levelA), lvls)
        /\ Update([ui EXCEPT !.levelA = l])

SetLevelB ==
  LET lvls == Lookup(catalog.DEM_LEVELS, ui.demB)
  IN  \E l \in Range(lvls) :
        l # Shown(ValidLevel(catalog, ui.demB, ui.levelB), lvls)
        /\ Update([ui EXCEPT !.levelB = l])

\* onChange of the three checkboxes
SetShowDem ==
  \E checked \in BOOLEAN : checked # ui.showDem /\ Update([ui EXCEPT !.showDem = checked])

SetShowFloodA ==
  \E checked \in BOOLEAN :
    checked # ui.showFloodA /\ Update([ui EXCEPT !.showFloodA = checked])

SetShowFloodB ==
  \E checked \in BOOLEAN :
    checked # ui.showFloodB /\ Update([ui EXCEPT !.showFloodB = checked])

\* onChange of the three range inputs
SetOpacityDEM ==
  \E o \in OpacityArgs : o # ui.opacityDEM /\ Update([ui EXCEPT !.opacityDEM = o])

SetOpacityA ==
  \E o \in OpacityArgs : o # ui.opacityA /\ Update([ui EXCEPT !.opacityA = o])

SetOpacityB ==
  \E o \in OpacityArgs : o # ui.opacityB /\ Update([ui EXCEPT !.opacityB = o])

NextApp ==
  \/ Mount \/ RunEffects
  \/ SetDemName \/ SetDemA \/ SetDemB \/ SetLevelA \/ SetLevelB
  \/ SetShowDem \/ SetShowFloodA \/ SetShowFloodB
  \/ SetOpacityDEM \/ SetOpacityA \/ SetOpacityB

SpecApp == InitApp /\ [][NextApp]_vars

\* the component under the selections only (without a basemap token), and
\* with the scheduling of React: the effects of a render run once the render
\* is committed, so a component with scheduled effects does not stay without
\* running them
InitSel == InitApp /\ env.token = Null

NextSel ==
  \/ Mount \/ RunEffects
  \/ SetDemName \/ SetDemA \/ SetDemB \/ SetLevelA \/ SetLevelB

FairSel == InitSel /\ [][NextSel]_vars /\ WF_vars(RunEffects)

(* ------------------ behaviour: the App component, whole ---------------- *)

\* the layer index of the whole component: two models, one with two levels
PanelIndexes ==
  { << Rec("dem", <<"a">>, Null, Null, Null), Rec("dem", <<"b">>, Null, Null, Null),
       Flood(<<"a">>, HAND_500, L10m), Flood(<<"a">>, HAND_2000, L5m) >> }

InitPanel ==
  /\ index \in PanelIndexes
  /\ catalog = NoCatalog
  /\ pc = "load"
  /\ file \in Files
  /\ req = NoReq
  /\ out = NoOut
  /\ env \in [base : {<<"/", "t", "c">>}, token : {Null}]
  /\ ui = InitialState(file)
  /\ view = NoView
  /\ panel = NoPanel

\* a state update of the panel from an event: the component renders again
UpdatePanel(p) ==
  /\ pc = "idle"
  /\ HasPanel(file)
  /\ PanelCells(p) # PanelCells(panel)
  /\ panel' = RenderPanel(file, p, panel, FALSE)
  /\ view' = RenderOf(file, env, catalog, ui, view)
  /\ pc' = "effects"

\* onClick of the Menu button: setIsOpen(v => !v)
Hamburger ==
  /\ UpdatePanel([panel EXCEPT !.isOpen = ~@])
  /\ UNCHANGED <<index, catalog, file, req, out, env, ui>>

\* onClick of the backdrop, which receives clicks while it is visible:
\* setIsOpen(false)
Backdrop ==
  /\ panel.backdrop.pointerEvents = "auto"
  /\ UpdatePanel([panel EXCEPT !.isOpen = FALSE])
  /\ UNCHANGED <<index, catalog, file, req, out, env, ui>>

\* onClick of the close button of the panel, which is there when the panel
\* is not pinned: setIsOpen(false)
Close ==
  /\ panel.closeButton
  /\ panel.drawer.transform = "translateX(0)"
  /\ UpdatePanel([panel EXCEPT !.isOpen = FALSE])
  /\ UNCHANGED <<index, catalog, file, req, out, env, ui>>

\* onClick of the pin button of the panel: setPinned(prev => !prev)
Pin ==
  /\ panel.drawer.transform = "translateX(0)"
  /\ UpdatePanel([panel EXCEPT !.pinned = ~@])
  /\ UNCHANGED <<index, catalog, file, req, out, env, ui>>

\* a resize of the window once the listener is installed: onResize calls
\* setIsDesktop(window.innerWidth >= 768); setting the value a cell already
\* has renders nothing
Resize ==
  /\ pc = "idle"
  /\ HasPanel(file)
  /\ \E w \in Widths :
       \/ /\ Desktop(w) = panel.isDesktop
          /\ UNCHANGED <<pc, view, panel>>
       \/ /\ Desktop(w) # panel.isDesktop
          /\ panel' = RenderPanel(file, [panel EXCEPT !.isDesktop = Desktop(w)],
                                  panel, FALSE)
          /\ view' = RenderOf(file, env, catalog, ui, view)
          /\ pc' = "effects"
  /\ UNCHANGED <<index, catalog, file, req, out, env, ui>>

NextPanel ==
  \/ NextApp
  \/ Hamburger \/ Backdrop \/ Close \/ Pin \/ Resize

SpecPanel == InitPanel /\ [][NextPanel]_vars

(* ------ behaviour: the selection of the oldest draft (1517-1747) ------- *)

\* useState of the draft (lines 1556-1575): no model is chosen and the two
\* levels are undefined
Draft_InitialState ==
  [demName |-> Empty, showDem |-> FALSE, opacityDEM |-> 30,
   demA |-> Empty, levelA |-> Null, showFloodA |-> TRUE, opacityA |-> 60,
   demB |-> Empty, levelB |-> Null, showFloodB |-> TRUE, opacityB |-> 45]

\* the body of the defaults effect of the draft (lines 1579-1583)
Draft_DefaultsEffect(cat, u) ==
  LET L == cat.DEM_LIST
      filled(x, d) == IF ~Truthy(x) /\ Len(L) > 0 THEN d ELSE x
  IN  [demName |-> filled(u.demName, L[1]), demA |-> filled(u.demA, L[1]),
       demB |-> filled(u.demB, Or(IF Len(L) > 1 THEN L[2] ELSE Null, L[1]))]

\* the body of a level effect of the draft (lines 1585-1597): the level is
\* set whenever it runs with a chosen model; lvls[0] of an empty list is
\* undefined
Draft_LevelEffect(cat, dem, level) ==
  LET lvls == Lookup(cat.DEM_LEVELS, dem)
  IN  IF ~Truthy(dem) THEN level
      ELSE IF Includes(lvls, L5m) THEN L5m
      ELSE IF Len(lvls) > 0 THEN lvls[1] ELSE Null

\* the cells in the dependency lists of the effects of the draft
Draft_EffectDeps(eff) ==
  IF eff = "levelA" THEN {"demA"}
  ELSE IF eff = "levelB" THEN {"demB"}
  ELSE {"demName", "demA", "demB"}

Draft_EffectsOf(cat, u, pending) ==
  LET d == IF "defaults" \in pending THEN Draft_DefaultsEffect(cat, u) ELSE Sel(u)
  IN  [u EXCEPT !.demName = d.demName, !.demA = d.demA, !.demB = d.demB,
                !.levelA = IF "levelA" \in pending
                           THEN Draft_LevelEffect(cat, u.demA, u.levelA) ELSE u.levelA,
                !.levelB = IF "levelB" \in pending
                           THEN Draft_LevelEffect(cat, u.demB, u.levelB) ELSE u.levelB]

\* dem && level ? (DEM_LEVEL_TO_HAND[dem]?.[level] || "") : ""
Draft_HandOf(cat, dem, level) == Or(HandOf(cat, dem, level), Empty)

\* floodUrlA, floodUrlB of the draft (lines 1601-1609), whose builders are
\* those of src/src/App.tsx
Draft_FloodUrl(base, cat, dem, level, cmap) ==
  IF Truthy(dem) /\ Truthy(level) /\ Truthy(Draft_HandOf(cat, dem, level))
  THEN App_buildFloodUrl(base, dem, Draft_HandOf(cat, dem, level), level, cmap,
                         <<0, 5>>, "false")
  ELSE Empty

\* one execution of the body of the draft up to the URLs, with the effects
\* it schedules (the layer list of the draft is left out)
Draft_RenderOf(e, cat, u, v) ==
  [v EXCEPT !.mounted = TRUE,
            !.catalogRuns = CatalogRuns(v),
            !.demUrl = IF Truthy(u.demName)
                       THEN App_buildDemUrl(e.base, u.demName, TERRAIN, <<250, 2200>>)
                       ELSE Empty,
            !.floodUrlA = Draft_FloodUrl(e.base, cat, u.demA, u.levelA, BLUES),
            !.floodUrlB = Draft_FloodUrl(e.base, cat, u.demB, u.levelB, REDS),
            !.deps = Sel(u),
            !.pending = IF ~v.mounted THEN Effects
                        ELSE {eff \in Effects :
                                \E k \in Draft_EffectDeps(eff) : v.deps[k] # u[k]}]

\* layer lists for the draft: two models that share their levels, a model
\* without scenarios, and no record at all
DraftIndexes ==
  { << Rec("dem", <<"a">>, Null, Null, Null), Rec("dem", <<"b">>, Null, Null, Null),
       Flood(<<"a">>, HAND_500, L5m), Flood(<<"a">>, HAND_500, L10m),
       Flood(<<"b">>, HAND_2000, L10m), Flood(<<"b">>, HAND_500, L5m) >>,
    << Rec("dem", <<"a">>, Null, Null, Null), Rec("dem", <<"b">>, Null, Null, Null),
       Flood(<<"a">>, HAND_500, L10m), Flood(<<"a">>, Empty, L2M) >>,
    << >> }

InitDraft ==
  /\ index \in DraftIndexes
  /\ catalog = NoCatalog
  /\ pc = "load"
  /\ file = "draft"
  /\ req = NoReq
  /\ out = NoOut
  /\ env \in [base : {<<"/", "t", "c">>}, token : {Null}]
  /\ ui = Draft_InitialState
  /\ view = NoView
  /\ panel = NoPanel

DraftMount ==
  /\ pc = "load"
  /\ IF Throws(index)
     THEN pc' = "failed" /\ UNCHANGED <<catalog, view>>
     ELSE /\ \E impl \in SortImpls : catalog' = Draft_BuildCatalog(index, impl)
          /\ view' = Draft_RenderOf(env, catalog', ui, view)
          /\ pc' = "effects"
  /\ UNCHANGED <<index, file, req, out, env, ui, panel>>

DraftRunEffects ==
  /\ pc = "effects"
  /\ ui' = Draft_EffectsOf(catalog, ui, view.pending)
  /\ IF ui' = ui
     THEN view' = [view EXCEPT !.pending = {}] /\ pc' = "idle"
     ELSE view' = Draft_RenderOf(env, catalog, ui', view) /\ pc' = "effects"
  /\ UNCHANGED <<index, catalog, file, req, out, env, panel>>

\* onChange of a select of the draft
DraftUpdate(u) ==
  /\ pc = "idle"
  /\ ui' = u
  /\ view' = Draft_RenderOf(env, catalog, u, view)
  /\ pc' = "effects"
  /\ UNCHANGED <<index, catalog, file, req, out, env, panel>>

DraftSetDemName ==
  \E d \in Range(catalog.DEM_LIST) :
    d # Shown(ui.demName, catalog.DEM_LIST) /\ DraftUpdate([ui EXCEPT !.demName = d])

DraftSetDemA ==
  \E d \in Range(catalog.DEM_LIST) :
    d # Shown(ui.demA, catalog.DEM_LIST) /\ DraftUpdate([ui EXCEPT !.demA = d])

DraftSetDemB ==
  \E d \in Range(catalog.DEM_LIST) :
    d # Shown(ui.demB, catalog.DEM_LIST) /\ DraftUpdate([ui EXCEPT !.demB = d])

DraftSetLevelA ==
  LET lvls == Lookup(catalog.DEM_LEVELS, ui.demA)
  IN  \E l \in Range(lvls) :
        l # Shown(ui.levelA, lvls) /\ DraftUpdate([ui EXCEPT !.levelA = l])

DraftSetLevelB ==
  LET lvls == Lookup(catalog.DEM_LEVELS, ui.demB)
  IN  \E l \in Range(lvls) :
        l # Shown(ui.levelB, lvls) /\ DraftUpdate([ui EXCEPT !.levelB = l])

NextDraft ==
  \/ DraftMount \/ DraftRunEffects
  \/ DraftSetDemName \/ DraftSetDemA \/ DraftSetDemB \/ DraftSetLevelA \/ DraftSetLevelB

SpecDraft == InitDraft /\ [][NextDraft]_vars

(* --------------------------- claim vocabulary -------------------------- *)

Ready == pc = "ready"

DEM_LIST == catalog.DEM_LIST

DEM_LEVELS == catalog.DEM_LEVELS

DEM_LEVEL_TO_HAND == catalog.DEM_LEVEL_TO_HAND

\* positions of the flood-scenario records with a non-empty dem and flood
ValidFlood == {i \in 1..Len(index) : /\ index[i].category = "flood_scenarios"
                                     /\ Truthy(index[i].dem)
                                     /\ Truthy(index[i].flood)}

\* positions of the valid flood-scenario records of model m and level l
FloodRecsOf(m, l) == {i \in ValidFlood : index[i].dem = m /\ index[i].flood = l}

InCatalog(m, l) == m \in DOMAIN DEM_LEVELS /\ Includes(DEM_LEVELS[m], l)

\* a level string of the form "<number>m"
WellFormedLevel(l) ==
  /\ Len(l) >= 2
  /\ l[Len(l)] = "m"
  /\ ToNumber(SubSeq(l, 1, Len(l) - 1)) # NaN

PermsOf(s) == {[i \in 1..Len(s) |-> s[f[i]]] : f \in Permutations(1..Len(s))}

(* --------------------------------- C1 ---------------------------------- *)

\* C1: for every (model, level) present in the catalog, if some flood-scenario
\* record of that model and level has hand = "hand_2000", the resolved
\* correction dataset is "hand_2000", wherever that record stands in the index.
C1_Hand2000Preferred ==
  Ready =>
    \A m \in DOMAIN DEM_LEVELS : \A l \in Range(DEM_LEVELS[m]) :
      (\E i \in FloodRecsOf(m, l) : index[i].hand = HAND_2000)
        => DEM_LEVEL_TO_HAND[m][l] = HAND_2000

\* a hand_500 record precedes the hand_2000 record of the same model and level
C1_Witness ==
  /\ Ready
  /\ \E m \in DOMAIN DEM_LEVELS : \E l \in Range(DEM_LEVELS[m]) :
       /\ \E i, j \in FloodRecsOf(m, l) :
            i < j /\ index[i].hand = HAND_500 /\ index[j].hand = HAND_2000
       /\ DEM_LEVEL_TO_HAND[m][l] = HAND_2000

(* --------------------------------- C2 ---------------------------------- *)

\* C2: every flood-scenario record with a non-empty dem m and a non-empty
\* flood l has l in DEM_LEVELS[m] and DEM_LEVEL_TO_HAND[m][l] defined, whether
\* or not m is the name of a terrain record, and no level is in DEM_LEVELS[m]
\* without such a record.
C2_FloodRecordsContribute ==
  Ready =>
    /\ \A i \in ValidFlood :
         /\ InCatalog(index[i].dem, index[i].flood)
         /\ index[i].flood \in DOMAIN DEM_LEVEL_TO_HAND[index[i].dem]
    /\ \A m \in DOMAIN DEM_LEVELS : \A l \in Range(DEM_LEVELS[m]) :
         FloodRecsOf(m, l) # {}

(* --------------------------------- C3 ---------------------------------- *)

\* C3: DEM_LIST and DEM_LEVELS depend only on the set of records: the
\* derivation over any permutation of the index yields the same DEM_LIST and
\* the same DEM_LEVELS sequence for every model.
C3_OrderIndependent ==
  Ready =>
    \A p \in PermsOf(index) : \A impl \in SortImpls :
      /\ BuildCatalog(p, impl).DEM_LIST = DEM_LIST
      /\ BuildCatalog(p, impl).DEM_LEVELS = DEM_LEVELS

(* --------------------------------- C4 ---------------------------------- *)

\* x < y as JavaScript evaluates it on numbers: false when either is NaN
NumLess(x, y) == x # NaN /\ y # NaN /\ x < y

\* C4: DEM_LEVELS[m] is strictly ascending by parseLevel: consecutive entries
\* a, b satisfy parseLevel(a) < parseLevel(b).
C4_StrictlyAscending ==
  Ready =>
    \A m \in DOMAIN DEM_LEVELS :
      \A i \in 1..(Len(DEM_LEVELS[m]) - 1) :
        NumLess(parseLevel(DEM_LEVELS[m][i]), parseLevel(DEM_LEVELS[m][i + 1]))

(* --------------------------------- C5 ---------------------------------- *)

\* C5: when every level string of a model has the form "<number>m", its list
\* is in ascending numeric (not lexicographic) order, parseLevel(a) <=
\* parseLevel(b) for consecutive a, b, and holds no string twice.
C5_NumericOrder ==
  Ready =>
    \A m \in DOMAIN DEM_LEVELS :
      (\A l \in Range(DEM_LEVELS[m]) : WellFormedLevel(l)) =>
        /\ \A i \in 1..(Len(DEM_LEVELS[m]) - 1) :
             /\ parseLevel(DEM_LEVELS[m][i]) # NaN
             /\ parseLevel(DEM_LEVELS[m][i + 1]) # NaN
             /\ parseLevel(DEM_LEVELS[m][i]) <= parseLevel(DEM_LEVELS[m][i + 1])
        /\ \A i, j \in 1..Len(DEM_LEVELS[m]) :
             DEM_LEVELS[m][i] = DEM_LEVELS[m][j] => i = j

\* the record of "10m" precedes that of "5m", and the list is <<"5m", "10m">>
C5_Witness ==
  /\ Ready
  /\ \E m \in DOMAIN DEM_LEVELS :
       /\ DEM_LEVELS[m] = <<L5m, L10m>>
       /\ \E i \in FloodRecsOf(m, L10m) : \E j \in FloodRecsOf(m, L5m) : i < j

(* --------------------------------- C6 ---------------------------------- *)

\* C6: a malformed level (parseLevel is NaN) stands after every well-formed
\* level of DEM_LEVELS[m], and the well-formed levels are in ascending numeric
\* order among themselves.
C6_MalformedLast ==
  Ready =>
    \A m \in DOMAIN DEM_LEVELS :
      \A i, j \in 1..Len(DEM_LEVELS[m]) :
        LET x == parseLevel(DEM_LEVELS[m][i])
            y == parseLevel(DEM_LEVELS[m][j])
        IN  i < j => /\ ~(x = NaN /\ y # NaN)
                     /\ (x # NaN /\ y # NaN) => x <= y

(* --------------------------------- C7 ---------------------------------- *)

\* a JavaScript string value: a sequence of characters, not null
IsString(v) == v # Null /\ \A k \in 1..Len(v) : v[k] \in DOMAIN CharCode

C8_EmptyOnlyIfNoDataset ==
  Ready =>
    \A m \in DOMAIN DEM_LEVELS : \A l \in Range(DEM_LEVELS[m]) :
      (\E i \in FloodRecsOf(m, l) : Truthy(index[i].hand))
        => DEM_LEVEL_TO_HAND[m][l] # Empty

(* --------------------------------- C9 ---------------------------------- *)

\* C9: when "hand_2000" is not among the candidates of (m, l), the resolved
\* value is the hand (absent counted as "") of the first record in input
\* order with dem = m and flood = l, and every derivation over the same index
\* resolves the same values.
C9_FirstInInputOrder ==
  Ready =>
    /\ \A m \in DOMAIN DEM_LEVELS : \A l \in Range(DEM_LEVELS[m]) :
         (\A i \in FloodRecsOf(m, l) : index[i].hand # HAND_2000) =>
           \E i \in FloodRecsOf(m, l) :
             /\ \A j \in FloodRecsOf(m, l) : i <= j
             /\ DEM_LEVEL_TO_HAND[m][l] = Coalesce(index[i].hand, Empty)
    /\ \A impl \in SortImpls :
         BuildCatalog(index, impl).DEM_LEVEL_TO_HAND = DEM_LEVEL_TO_HAND

(* --------------------------------- C10 --------------------------------- *)

\* C10: DEM_LIST holds exactly the non-empty names of the records of category
\* "dem", each once, in ascending (code unit) alphabetical order.
C10_DemList ==
  Ready =>
    /\ Range(DEM_LIST) =
         {index[i].name : i \in {k \in 1..Len(index) :
                                   index[k].category = "dem" /\ Truthy(index[k].name)}}
    /\ \A i, j \in 1..Len(DEM_LIST) : i < j => StrLess(DEM_LIST[i], DEM_LIST[j])

\* the terrain record "b" precedes the terrain record "a", next to a record of
\* another category that carries a name
C10_Witness ==
  /\ Ready
  /\ DEM_LIST = << <<"a">>, <<"b">> >>
  /\ \E i, j, k \in 1..Len(index) :
       /\ i < j
       /\ index[i].category = "dem" /\ index[i].name = <<"b">>
       /\ index[j].category = "dem" /\ index[j].name = <<"a">>
       /\ index[k].category # "dem" /\ Truthy(index[k].name)

(* --------------------------------- C11 --------------------------------- *)

\* a record that the derivation reads: a named terrain record or a
\* flood-scenario record with a dem and a flood
Contributes(r) ==
  \/ r.category = "dem" /\ Truthy(r.name)
  \/ r.category = "flood_scenarios" /\ Truthy(r.dem) /\ Truthy(r.flood)

RECURSIVE SelectRecs(_)
SelectRecs(recs) ==
  IF recs = <<>> THEN <<>>
  ELSE IF Contributes(recs[1]) THEN <<recs[1]>> \o SelectRecs(Tail(recs))
  ELSE SelectRecs(Tail(recs))

\* C11: the derivation never fails, whatever strings the records hold, and a
\* record of an unrecognized category or without the needed fields is skipped
\* without changing what the other records contribute.
C11_NeverFails ==
  /\ pc # "failed"
  /\ Ready => \A impl \in SortImpls :
                BuildCatalog(SelectRecs(index), impl) = BuildCatalog(index, impl)

(* ------------------------ claim vocabulary: URLs ----------------------- *)

\* the call was made and returned
Returned(url) == url # Null /\ url # URIError

StartsWith(s, pre) == Len(pre) <= Len(s) /\ SubSeq(s, 1, Len(pre)) = pre

EndsWith(s, suf) ==
  Len(suf) <= Len(s) /\ SubSeq(s, Len(s) - Len(suf) + 1, Len(s)) = suf

\* start positions of the occurrences of sub in s
Occurrences(s, sub) ==
  {i \in 1..(Len(s) - Len(sub) + 1) : SubSeq(s, i, i + Len(sub) - 1) = sub}

Contains(s, sub) == Occurrences(s, sub) # {}

HexVal(c) ==
  IF CharCode[c] \in 48..57 THEN CharCode[c] - 48
  ELSE IF CharCode[c] \in 65..70 THEN CharCode[c] - 55
  ELSE IF CharCode[c] \in 97..102 THEN CharCode[c] - 87
  ELSE -1

\* decodeURIComponent; Null when it raises URIError (a "%" not followed by two
\* hexadecimal digits)
RECURSIVE decodeURIComponent(_)
decodeURIComponent(s) ==
  IF s = <<>> THEN <<>>
  ELSE IF s[1] # "%"
       THEN LET rest == decodeURIComponent(Tail(s))
            IN  IF rest = Null THEN Null ELSE <<s[1]>> \o rest
  ELSE IF Len(s) < 3 \/ HexVal(s[2]) < 0 \/ HexVal(s[3]) < 0 THEN Null
  ELSE LET code == 16 * HexVal(s[2]) + HexVal(s[3])
           rest == decodeURIComponent(SubSeq(s, 4, Len(s)))
       IN  IF rest = Null \/ ~(\E c \in DOMAIN CharCode : CharCode[c] = code)
           THEN Null
           ELSE <<CHOOSE c \in DOMAIN CharCode : CharCode[c] = code>> \o rest

FloodPrefix == <<"/", "s", "i", "n", "g", "l", "e", "b", "a", "n", "d", "/", "f", "l", "o", "o", "d", "_", "s", "c", "e", "n", "a", "r", "i", "o", "s", "/">>

DemPrefix == <<"/", "s", "i", "n", "g", "l", "e", "b", "a", "n", "d", "/", "d", "e", "m", "/">>

(* --------------------------------- C12 --------------------------------- *)

\* C12: in the result of buildFloodUrl, "/singleband/flood_scenarios/" is
\* followed by one path segment without "/" whose URL-decoding is
\* dem_hand_flood_level, followed by "/{z}/{x}/{y}.png?"; for (alos_dem,
\* hand_2000, 5m, blues, [0,5], false) the query holds colormap=blues and
\* stretch_range=[0,5].
C12_FloodSegment ==
  Returned(out.flood) =>
    LET url == out.flood
        pre == req.base \o FloodPrefix
    IN  /\ \E n \in 0..(Len(url) - Len(pre)) :
             LET seg == SubSeq(url, Len(pre) + 1, Len(pre) + n)
             IN  /\ StartsWith(url, pre \o seg \o TilePath \o <<"?">>)
                 /\ ~Includes(seg, "/")
                 /\ decodeURIComponent(seg) = LayerName(req.dem, req.hand, req.level)
        /\ ( /\ req.dem = <<"a", "l", "o", "s", "_", "d", "e", "m">> /\ req.hand = HAND_2000 /\ req.level = L5m
             /\ req.cmap = <<"b", "l", "u", "e", "s">> /\ req.stretch = <<0, 5>>
             /\ req.pureBlue = "false" )
           => /\ Contains(url, <<"c", "o", "l", "o", "r", "m", "a", "p", "=", "b", "l", "u", "e", "s">>)
              /\ Contains(url, <<"s", "t", "r", "e", "t", "c", "h", "_", "r", "a", "n", "g", "e", "=", "[", "0", ",", "5", "]">>)

(* --------------------------------- C13 --------------------------------- *)

ZXY == <<"{", "z", "}", "/", "{", "x", "}", "/", "{", "y", "}">>

\* C13: the result of buildDemUrl holds the text "{z}/{x}/{y}" exactly once,
\* unencoded, between the URL-encoded model segment and ".png?colormap=",
\* also when the model or the colormap itself holds that text.
C13_OnePlaceholder ==
  Returned(out.dem) =>
    /\ Cardinality(Occurrences(out.dem, ZXY)) = 1
    /\ StartsWith(out.dem, req.base \o DemPrefix \o encodeURIComponent(req.dem) \o
                           <<"/">> \o ZXY \o <<".", "p", "n", "g", "?", "c", "o", "l", "o", "r", "m", "a", "p", "=">>)

(* --------------------------------- C14 --------------------------------- *)

\* [min,max] as it must appear in the URL
ExpectedRange(stretch) ==
  CASE stretch = <<0, 5>> -> <<"[", "0", ",", "5", "]">>
    [] stretch = <<250, 2200>> -> <<"[", "2", "5", "0", ",", "2", "2", "0", "0", "]">>
    [] stretch = <<-1, 10>> -> <<"[", "-", "1", ",", "1", "0", "]">>

\* C14: with pureBlue = true the result of buildFloodUrl is the same for every
\* colormap argument, and its query is
\* colormap=custom&colors=0000ff&stretch_range=[min,max].
C14_PureBlueIgnoresColormap ==
  (Returned(out.flood) /\ req.pureBlue = "true") =>
    /\ \A c \in CmapArgs :
         FloodUrlOf(file, req.base, req.dem, req.hand, req.level, c,
                    req.stretch, req.pureBlue) = out.flood
    /\ EndsWith(out.flood,
                <<".", "p", "n", "g", "?", "c", "o", "l", "o", "r", "m", "a", "p", "=", "c", "u", "s", "t", "o", "m", "&", "c", "o", "l", "o", "r", "s", "=", "0", "0", "0", "0", "f", "f", "&", "s", "t", "r", "e", "t", "c", "h", "_", "r", "a", "n", "g", "e", "=">> \o
                ExpectedRange(req.stretch))
    /\ Cardinality(Occurrences(out.flood, <<"c", "o", "l", "o", "r", "m", "a", "p", "=">>)) = 1

\* pureBlue = true with a colormap argument that carries its own parameters
C14_Witness ==
  /\ Returned(out.flood)
  /\ req.pureBlue = "true"
  /\ req.cmap = <<"x", "&", "c", "o", "l", "o", "r", "s", "=", "f">>
  /\ req.dem = <<"a", "l", "o", "s", "_", "d", "e", "m">>

(* --------------------------------- C15 --------------------------------- *)

\* C15 (buildFloodUrl of part_000): omitting the sixth argument gives the
\* result of passing false; then the query is colormap=<URL-encoded colormap>;
\* in both modes the URL ends with &stretch_range=[min,max], one comma and no
\* space; and "colors=" occurs only together with colormap=custom.
C15_DefaultMode ==
  (Returned(out.flood) /\ file = "part_000") =>
    /\ req.pureBlue = "omitted" =>
         out.flood = buildFloodUrl(req.base, req.dem, req.hand, req.level,
                                   req.cmap, req.stretch, "false")
    /\ req.pureBlue \in {"false", "omitted"} =>
         EndsWith(out.flood,
                  <<".", "p", "n", "g", "?", "c", "o", "l", "o", "r", "m", "a", "p", "=">> \o encodeURIComponent(req.cmap) \o
                  <<"&", "s", "t", "r", "e", "t", "c", "h", "_", "r", "a", "n", "g", "e", "=">> \o ExpectedRange(req.stretch))
    /\ EndsWith(out.flood, <<"&", "s", "t", "r", "e", "t", "c", "h", "_", "r", "a", "n", "g", "e", "=">> \o ExpectedRange(req.stretch))
    /\ Contains(out.flood, <<"c", "o", "l", "o", "r", "s", "=">>) => Contains(out.flood, <<"c", "o", "l", "o", "r", "m", "a", "p", "=", "c", "u", "s", "t", "o", "m">>)

\* the sixth argument omitted, with a colormap that needs encoding
C15_Witness ==
  /\ Returned(out.flood)
  /\ file = "part_000"
  /\ req.pureBlue = "omitted"
  /\ req.cmap = <<"x", "&", "c", "o", "l", "o", "r", "s", "=", "f">>

(* ------------------------ claim vocabulary: App ------------------------ *)

Rendered == view.mounted

HasLayer(id) == \E i \in 1..Len(view.layers) : view.layers[i].id = id

\* the correction dataset the catalog holds for (d, l), "" when it holds none
HandIn(d, l) ==
  IF d \in DOMAIN DEM_LEVEL_TO_HAND
  THEN IF l \in DOMAIN DEM_LEVEL_TO_HAND[d] THEN DEM_LEVEL_TO_HAND[d][l] ELSE Empty
  ELSE Empty

\* model, level and resolved correction dataset of a selection are all
\* non-empty
FullySpecified(d, l) == d # Empty /\ l # Empty /\ HandIn(d, l) # Empty

(* --------------------------------- C16 --------------------------------- *)

\* C16: in every rendered state the layer list contains "dem-tiles" only if
\* demName is non-empty and "flood-tiles-A" ("flood-tiles-B") only if the
\* model, the level and the resolved correction dataset of A (B) are all
\* non-empty; for any other selection the URL is "" and there is no layer;
\* and no builder is called with an empty model, level or correction dataset.
C16_OnlyFullySpecified ==
  Rendered =>
    /\ HasLayer("dem-tiles") => ui.demName # Empty
    /\ HasLayer("flood-tiles-A") => FullySpecified(ui.demA, ui.levelA)
    /\ HasLayer("flood-tiles-B") => FullySpecified(ui.demB, ui.levelB)
    /\ ui.demName = Empty => view.demUrl = Empty /\ ~HasLayer("dem-tiles")
    /\ ~FullySpecified(ui.demA, ui.levelA) =>
         view.floodUrlA = Empty /\ ~HasLayer("flood-tiles-A")
    /\ ~FullySpecified(ui.demB, ui.levelB) =>
         view.floodUrlB = Empty /\ ~HasLayer("flood-tiles-B")
    /\ \A d \in view.calls.dem : d # Empty
    /\ \A c \in view.calls.floodA \cup view.calls.floodB :
         c[1] # Empty /\ c[2] # Empty /\ c[3] # Empty

\* a level without a correction dataset is chosen for A and shown: there is
\* no URL and no layer for A, while the terrain layer is there
C16_Witness ==
  /\ pc = "idle"
  /\ ui.demA # Empty /\ ui.levelA # Empty /\ HandIn(ui.demA, ui.levelA) = Empty
  /\ ui.showFloodA
  /\ view.floodUrlA = Empty /\ ~HasLayer("flood-tiles-A")
  /\ HasLayer("dem-tiles")

(* --------------------------------- C17 --------------------------------- *)

\* the default-level policy for a list of levels: "5m" if it is in the list,
\* else the first level, else ""
DefaultLevel(lvls) ==
  IF L5m \in Range(lvls) THEN L5m ELSE IF lvls # <<>> THEN lvls[1] ELSE Empty

\* the effects of the last render are about to run and the level of the
\* given selection is not a level of its model
Invalid(d, l) == pc = "effects" /\ ~Includes(Lookup(DEM_LEVELS, d), l)

C18_ValidatedCalls ==
  Rendered =>
    /\ \A d \in view.calls.dem : Includes(DEM_LIST, d)
    /\ \A c \in view.calls.floodA \cup view.calls.floodB :
         /\ Includes(DEM_LIST, c[1])
         /\ Includes(Lookup(DEM_LEVELS, c[1]), c[3])
         /\ c[2] = HandIn(c[1], c[3])

(* --------------------------------- C19 --------------------------------- *)

\* the URL of the terrain layer for the current state
CurrentDemUrl ==
  IF ui.demName # Empty
  THEN DemUrlOf(file, env.base, ui.demName, TERRAIN, <<250, 2200>>) ELSE Empty

\* the URL of a comparison layer for the current state
CurrentFloodUrl(d, l, cmap) ==
  IF FullySpecified(d, l)
  THEN FloodUrlOf(file, env.base, d, HandIn(d, l), l, cmap, <<0, 5>>, PureBlueArg(file))
  ELSE Empty

\* the descriptor of one layer for the current state, if it has one
Descriptor(id, url, show, opacity) ==
  IF url # Empty /\ show THEN <<[id |-> id, data |-> url, opacity |-> opacity]>> ELSE <<>>

CurrentLayers ==
  Descriptor("dem-tiles", CurrentDemUrl, ui.showDem, ui.opacityDEM) \o
  Descriptor("flood-tiles-A", CurrentFloodUrl(ui.demA, ui.levelA, BLUES),
             ui.showFloodA, ui.opacityA) \o
  Descriptor("flood-tiles-B", CurrentFloodUrl(ui.demB, ui.levelB, REDS),
             ui.showFloodB, ui.opacityB)

LayerOrder == [id \in {"dem-tiles", "flood-tiles-A", "flood-tiles-B"} |->
                 IF id = "dem-tiles" THEN 1 ELSE IF id = "flood-tiles-A" THEN 2 ELSE 3]

\* C19: in every rendered state the memoized layer list equals the list
\* computed from the current state: one descriptor for each of terrain, A, B
\* whose URL is non-empty and whose show flag is true, with the current URL
\* and opacity; at most three descriptors, with distinct ids in the order
\* "dem-tiles", "flood-tiles-A", "flood-tiles-B".
C19_LayersNeverStale ==
  Rendered =>
    /\ view.layers = CurrentLayers
    /\ Len(view.layers) <= 3
    /\ \A i \in 1..Len(view.layers) :
         view.layers[i].id \in {"dem-tiles", "flood-tiles-A", "flood-tiles-B"}
    /\ \A i, j \in 1..Len(view.layers) :
         i < j => LayerOrder[view.layers[i].id] < LayerOrder[view.layers[j].id]

\* after a level was selected, an opacity moved and a layer hidden, the list
\* holds the terrain layer and A with the new opacity
C19_Witness ==
  /\ pc = "idle"
  /\ ui.levelA = L10m /\ ui.opacityA = 100 /\ ~ui.showFloodB
  /\ Len(view.layers) = 2
  /\ view.layers[2].id = "flood-tiles-A" /\ view.layers[2].opacity = 100

(* --------------------------------- C20 --------------------------------- *)

\* the environment of a run that differs only in the basemap token
WithToken(t) == [env EXCEPT !.token = t]

\* C20: the tile-layer list does not depend on the basemap token: in every
\* rendered state it is the list that the same state renders to under any
\* other setting of VITE_MAPBOX_TOKEN (not set, "", a token); and the basemap
\* element is null exactly when there is no token.
C20_LayersIgnoreToken ==
  Rendered =>
    /\ \A t \in Tokens \cup {Empty} :
         RenderOf(file, WithToken(t), catalog, ui, NoView).layers = view.layers
    /\ view.mapEl = Null <=> env.token \in {Null, Empty}

\* no token is set: there is no basemap element and all three tile layers
\* are in the list
C20_Witness ==
  /\ pc = "idle"
  /\ env.token = Null
  /\ view.mapEl = Null
  /\ Len(view.layers) = 3

(* --------------------------------- C21 --------------------------------- *)

\* C21: for every combination of string arguments and number pairs
\* buildDemUrl and buildFloodUrl return a string and raise no error; with an
\* empty model (and hand and level) the result still has the shape
\* <base>/singleband/<kind>/<segment>/{z}/{x}/{y}.png?<query>, the segment
\* being "" for the terrain URL and "__flood_" for the flood URL.
C21_UrlNeverFails ==
  /\ out.dem # Null =>
       /\ out.dem # URIError
       /\ IsString(out.dem)
       /\ req.dem = Empty =>
            StartsWith(out.dem, req.base \o DemPrefix \o TilePath \o <<"?">>)
  /\ out.flood # Null =>
       /\ out.flood # URIError
       /\ IsString(out.flood)
       /\ (req.dem = Empty /\ req.hand = Empty /\ req.level = Empty) =>
            StartsWith(out.flood, req.base \o FloodPrefix \o <<"_", "_", "f", "l", "o", "o", "d", "_">> \o
                                  TilePath \o <<"?">>)

\* C22: the record list is never modified, and once the first render has
\* computed the catalog no step (a selection, a visibility or opacity
\* change, the hamburger, the backdrop, the close or the pin button, a
\* resize, an effect) computes it again or changes it
C22_CatalogFixed ==
  [][/\ index' = index
     /\ view.mounted => /\ catalog' = catalog
                        /\ view.catalogRuns = 1
                        /\ view'.catalogRuns = 1]_vars

\* the component of part_000 after selections, a visibility change, a resize
\* to a narrow window and the hamburger
C22_Witness ==
  /\ pc = "idle"
  /\ file = "part_000"
  /\ ui.demName = <<"b">>
  /\ ui.levelA = L5m
  /\ ~ui.showFloodB
  /\ ~panel.isDesktop
  /\ ~panel.pinned
  /\ panel.isOpen
  /\ catalog.DEM_LIST = << <<"a">>, <<"b">> >>

\* C23: an effect changes a chosen level only when the level is not in
\* DEM_LEVELS of the chosen model: after the user changes model A (or B) to a
\* model whose list contains the chosen level, the effects leave the level
\* as it is
C23_LevelKeptWhenValid ==
  [][pc = "effects" =>
       /\ Includes(Lookup(DEM_LEVELS, ui.demA), ui.levelA) => ui'.levelA = ui.levelA
       /\ Includes(Lookup(DEM_LEVELS, ui.demB), ui.levelB) => ui'.levelB = ui.levelB]_vars

\* a state in which running every effect again changes nothing
Settled == EffectsOf(file, catalog, ui, Effects) = ui

\* the chosen level is in DEM_LEVELS of the chosen model, or is "" when that
\* list is empty
LevelSettled(dem, level) ==
  IF Lookup(DEM_LEVELS, dem) = <<>> THEN level = Empty
  ELSE Includes(Lookup(DEM_LEVELS, dem), level)

Models == {"demName", "demA", "demB"}

\* C25: with a non-empty DEM_LIST the three chosen models are in DEM_LIST
\* whenever the effects have settled (after the first render and after every
\* selection); the effects of src/src/App.tsx turn the empty selection into
\* DEM_LIST[0] for the terrain layer and for A, and DEM_LIST[1] (DEM_LIST[0]
\* when there is one model) for B; the defaults effect of part_000 replaces
\* a chosen model that is not in DEM_LIST by DEM_LIST[0]
C25_ModelsInCatalog ==
  [][/\ (pc' = "idle" /\ DEM_LIST' # <<>>) =>
          \A m \in Models : Includes(DEM_LIST', ui'[m])
     /\ (pc = "effects" /\ file = "App.tsx" /\ ui = InitialState(file) /\ DEM_LIST # <<>>) =>
          /\ ui'.demName = DEM_LIST[1]
          /\ ui'.demA = DEM_LIST[1]
          /\ ui'.demB = IF Len(DEM_LIST) >= 2 THEN DEM_LIST[2] ELSE DEM_LIST[1]
     /\ (pc = "effects" /\ file = "part_000" /\ "defaults" \in view.pending
           /\ DEM_LIST # <<>>) =>
          \A m \in Models : ~Includes(DEM_LIST, ui[m]) => ui'[m] = DEM_LIST[1]]_vars

\* part_000 settled with a catalog that lacks the hard-coded models
C25_Witness ==
  /\ pc = "idle"
  /\ file = "part_000"
  /\ DEM_LIST # <<>>
  /\ ~Includes(DEM_LIST, InitialState(file).demB)
  /\ ~Includes(DEM_LIST, InitialState(file).demA)
  /\ ui.demA = DEM_LIST[1]
  /\ ui.demB = DEM_LIST[1]

\* C26: the value resolved for (m, l) is the hand (absent counted as "") of
\* a flood-scenario record whose dem is m and whose flood is l, also when the
\* strings contain "|"
C26_HandOfSamePair ==
  Ready =>
    \A m \in DOMAIN DEM_LEVEL_TO_HAND : \A l \in DOMAIN DEM_LEVEL_TO_HAND[m] :
      \E i \in FloodRecsOf(m, l) :
        DEM_LEVEL_TO_HAND[m][l] = Coalesce(index[i].hand, Empty)

\* a string made only of letters, digits, "_", "-" and "."
CatalogShaped(s) ==
  \A i \in 1..Len(s) :
    \/ CharCode[s[i]] \in 48..57
    \/ CharCode[s[i]] \in 65..90
    \/ CharCode[s[i]] \in 97..122
    \/ s[i] \in {"_", "-", "."}

\* C27: for dem, hand, level and colormap made only of letters, digits, "_",
\* "-" and ".", and every stretch pair and pureBlue flag, the builders of
\* part_000 and of src/src/App.tsx return the same string
C27_SameUrls ==
  /\ (out.dem # Null /\ CatalogShaped(req.dem) /\ CatalogShaped(req.cmap)) =>
       /\ out.dem = buildDemUrl(req.base, req.dem, req.cmap, req.stretch)
       /\ out.dem = App_buildDemUrl(req.base, req.dem, req.cmap, req.stretch)
  /\ (out.flood # Null /\ CatalogShaped(req.dem) /\ CatalogShaped(req.hand)
        /\ CatalogShaped(req.level) /\ CatalogShaped(req.cmap)) =>
       /\ out.flood = buildFloodUrl(req.base, req.dem, req.hand, req.level, req.cmap,
                                    req.stretch, req.pureBlue)
       /\ out.flood = App_buildFloodUrl(req.base, req.dem, req.hand, req.level, req.cmap,
                                        req.stretch, req.pureBlue)

\* both builders of part_000 applied to names with "_", "." and "-"
C27_Witness ==
  /\ file = "part_000"
  /\ out.dem # Null
  /\ out.flood # Null
  /\ req.dem = <<"a", "l", "o", "s", "_", "d", "e", "m">>
  /\ req.hand = HAND_2000
  /\ req.level = <<"2", ".", "5", "-", "M">>
  /\ req.cmap = <<"t", "e", "r", "r", "a", "i", "n">>
  /\ req.pureBlue = "false"

\* C28: the derivations of src/src/App.tsx and of the oldest draft compute,
\* for every record list (hand absent, null or ""), the DEM_LIST, DEM_LEVELS
\* and DEM_LEVEL_TO_HAND that the derivation of part_000 computes
C28_SameCatalog ==
  Ready =>
    \A impl \in SortImpls :
      catalog = BuildCatalog(index, impl) =>
        /\ App_BuildCatalog(index, impl) = catalog
        /\ Draft_BuildCatalog(index, impl) = catalog

\* a level whose first record has no hand and whose second record has one:
\* the candidates are "" and "hand_500", and "" is resolved
C28_Witness ==
  /\ Ready
  /\ \E i, j \in 1..Len(index) :
       /\ i < j
       /\ index[i] = Flood(<<"a">>, Null, L5m)
       /\ index[j] = Flood(<<"a">>, HAND_500, L5m)
  /\ <<"a">> \in DOMAIN DEM_LEVEL_TO_HAND
  /\ DEM_LEVEL_TO_HAND[<<"a">>][L5m] = Empty

\* the drawer is on screen
DrawerShown == panel.drawer.transform = "translateX(0)"

\* the backdrop is visible and receives clicks
BackdropShown == panel.backdrop.opacity = 1 /\ panel.backdrop.pointerEvents = "auto"

\* C29: in every rendered state of the panel the drawer is shown iff isOpen
\* or pinned, the backdrop is shown iff isOpen and not pinned (never over a
\* hidden drawer), and the close button is there only when not pinned; no
\* step that leaves pinned true hides the drawer
C29_PinKeepsOpen ==
  [][(HasPanel(file) /\ view'.mounted) =>
       /\ DrawerShown' <=> (panel'.isOpen \/ panel'.pinned)
       /\ BackdropShown' <=> (panel'.isOpen /\ ~panel'.pinned)
       /\ BackdropShown' => DrawerShown'
       /\ panel'.closeButton => ~panel'.pinned
       /\ (panel.pinned /\ panel'.pinned) => DrawerShown']_vars

\* pinned, after the hamburger set isOpen to false: the drawer is shown
C29_Witness ==
  /\ pc = "idle"
  /\ HasPanel(file)
  /\ panel.pinned
  /\ ~panel.isOpen
  /\ DrawerShown
  /\ ~BackdropShown
  /\ ~panel.closeButton

\* C30: the effect over [isDesktop] is scheduled, after the first render,
\* only by a change of isDesktop; once it has run pinned is the new
\* isDesktop, and in the mobile mode isOpen is false and the drawer is
\* hidden; a run of the effects without it (after a resize that leaves
\* isDesktop as it is, after a selection) changes neither pinned nor isOpen
C30_ResponsiveReset ==
  [][/\ (pc = "effects" /\ "pinned" \in panel.pending) =>
          /\ panel'.pinned = panel.isDesktop
          /\ ~panel.isDesktop => (~panel'.isOpen /\ ~DrawerShown')
     /\ (pc = "effects" /\ "pinned" \notin panel.pending) =>
          /\ panel'.pinned = panel.pinned
          /\ panel'.isOpen = panel.isOpen
     /\ (view.mounted /\ "pinned" \in panel'.pending) =>
          panel'.isDesktop # panel.isDesktop
     /\ (pc = "idle" /\ panel'.isDesktop = panel.isDesktop) =>
          "pinned" \notin panel'.pending]_vars

\* a resize from the desktop to the mobile mode, after the user changed an
\* opacity: the effect over [isDesktop] is about to run on a pinned, open
\* panel
C30_Witness ==
  /\ pc = "effects"
  /\ HasPanel(file)
  /\ panel.pending = {"pinned"}
  /\ ~panel.isDesktop
  /\ panel.pinned
  /\ panel.isOpen
  /\ ui.opacityDEM = 100

====
